---- MODULE Spec2Model ----
(***************************************************************************)
(* A model of the path tracer "racist": the BVH traversal of the compute  *)
(* kernel (kernels/simple/src/inter.rs), the kernel dispatch               *)
(* (kernels/simple/src/lib.rs, src/compute.rs), the CPU renderer           *)
(* (src/rendering.rs), the integrator's radiance accumulation              *)
(* (kernels/simple/src/lib.rs, util.rs) and the light pick table           *)
(* (src/light.rs, kernels/simple/src/light.rs).                            *)
(*                                                                         *)
(* Floating-point numbers are modelled as exact extended rationals         *)
(* <<n, d>> with d >= 0: d > 0 is the rational n/d, <<1,0>> is +infinity,  *)
(* <<-1,0>> is -infinity and <<0,0>> is NaN, so that a division by a zero  *)
(* direction component gives what IEEE-754 gives.                          *)
(***************************************************************************)
EXTENDS Integers, Sequences, FiniteSets, TLC

VARIABLES
    \* ---- BVH query (inter.rs) ----
    vertices,       \* per_vertex_buffer: sequence of positions <<x, y, z>>
    indices,        \* index_buffer: sequence of <<i0, i1, i2, m>> (0-based vertex ids)
    nodes,          \* BVHReference.nodes: sequence of BVHNode records (node k is nodes[k+1])
    ro,             \* ray origin
    rd,             \* ray direction, an integer vector; the unit direction is rd / rs
    rs,             \* the length of rd
    NEAREST,        \* the const generic of intersect_front_to_back
    max_t,          \* the max_t argument
    stack,          \* FixedVec<usize, 32>
    result,         \* the Trace being built
    push_count,     \* history: per node index, how often the query pushed it
    pops,           \* history: how many iterations the pop loop has made
    pc,             \* "loop" | "done" | "overflow"
    \* ---- one dispatch of main_cs (kernels/simple/src/lib.rs, src/compute.rs) ----
    cfgW,           \* config.width
    cfgH,           \* config.height
    inv,            \* the global_invocation_id <<x, y>> of two invocations of the dispatch
    ipc,            \* where each of them is: "start" | "traced" | "done"
    slot,           \* the index each of them has computed, NoSlot before
    \* ---- render (src/rendering.rs) ----
    camera,         \* the camera: [width, height]
    num_samples,    \* the num_samples argument
    pending,        \* the ray indices of 0..num_rays no worker has taken yet
    wk,             \* per pool worker: [st, ray, rng, item]
    chan,           \* the bounded channel: a sequence of items [ray, pixel_idx, color]
    colors,         \* the accumulators, colors[pixel_idx + 1]
    delivered,      \* history: per ray index, the pixels it was added to, in order
    rpc,            \* the receiving thread: "recv" | "join" | "image" | "done" | "panic"
    img,            \* the image, one u8 channel per pixel; <<>> before it is built
    \* ---- light pick table (src/light.rs, kernels/simple/src/light.rs) ----
    mask,           \* the emissive mask, one BOOLEAN per triangle
    powers,         \* triangle_powers of the masked triangles (0 elsewhere)
    lights,         \* the light pick table; <<>> before it is built
    lpc,            \* "build" | "built" | "sampled" | "panic" | "idle"
    ls,             \* what the last sample_direct_lighting call did: [sample, draws, shadow_rays]
    \* ---- trace_pixel (kernels/simple/src/lib.rs) ----
    bounce,         \* the loop variable of for bounce in 0..16
    throughput,     \* Vec3 of extended rationals
    radiance,       \* Vec3 of extended rationals
    bsdf_sample,    \* the last BSDFSample: [lobe, spectrum, pdf]
    light_sample,   \* the last LightSample
    draws,          \* how many random numbers rng_state has given out
    tpc,            \* "loop" | "done" | "idle"
    config,         \* the TracingConfig's [min_bounces, max_bounces]
    queries,        \* history: how many intersect_nearest calls the loop made
    light_calls,    \* history: how many sample_direct_lighting calls it made
    did,            \* history: what the last iteration of the loop did
    \* ---- materials (kernels/simple/src/bsdf.rs) ----
    material,       \* a MaterialData: roughness and metallic constants, has-texture flags
    pbr,            \* the PBR that get_pbr_bsdf returned: [roughness, metallic]
    mpc,            \* "get" | "got" | "idle"
    \* ---- one BVHNode (shared/src/lib.rs) ----
    nd,             \* a BVHNode: [aabb_min, aabb_max], each <<x, y, z, w>>
    wrote,          \* history: per field, the value last written to it
    got,            \* what the last right_node_index call did: [called, left, panicked, value]
    \* ---- World::from_path (src/scene.rs) ----
    loaded,         \* the index buffer as the meshes gave it: a sequence of triangles [id, area, m]
    index_buffer,   \* the index buffer, which the BVH build reorders in place
    emissive_mask,  \* compute_emissive_mask of the index buffer
    light_pick_buffer,\* the light pick table
    wpc,            \* "loaded" | "bvh" | "built" | "sampled" | "panic" | "idle"
    fetched,        \* history: the last light sample: [light_index, area, pick_pdf, triangle]
    \* ---- progressive accumulation (src/compute.rs, src/main.rs) ----
    acfg,           \* state.config: [width, height]
    frame,          \* state.frame, one channel: frame[index + 1]
    samples,        \* state.samples
    gpu_call,       \* history: what the last trace_gpu call started from and the samples it traced
    \* ---- block_on and its Signal (src/block.rs) ----
    sig,            \* Signal.state: "Empty", "Waiting" or "Notified"
    cv_woken,       \* Signal.cond: a notify_one has reached the sleeping waiter
    waiter,         \* where the thread of block_on is
    owed,           \* notifies since wait last returned
    wait_n,         \* calls of wait so far
    notify_n,       \* calls of notify so far
    wait_log        \* the last call of wait: how it was entered and how it returned

bvhVars ==
    <<vertices, indices, nodes, ro, rd, rs, NEAREST, max_t, stack, result, push_count, pops, pc>>
dispVars == <<cfgW, cfgH, inv, ipc, slot>>
renderVars == <<camera, num_samples, pending, wk, chan, colors, delivered, rpc, img>>
lightVars == <<mask, powers, lights, lpc, ls>>
traceVars ==
    <<bounce, throughput, radiance, bsdf_sample, light_sample, draws, tpc,
      config, queries, light_calls, did>>

matVars == <<material, pbr, mpc>>

nodeVars == <<nd, wrote, got>>

worldVars == <<loaded, index_buffer, emissive_mask, light_pick_buffer, wpc, fetched>>

accumVars == <<acfg, frame, samples, gpu_call>>

signalVars == <<sig, cv_woken, waiter, owed, wait_n, notify_n, wait_log>>

vars == <<bvhVars, dispVars, renderVars, lightVars, traceVars, matVars, nodeVars, worldVars, accumVars, signalVars>>

\* What the steps of one part of the program leave alone: the other parts.
bvhFrame == <<dispVars, renderVars, lightVars, traceVars, matVars, nodeVars, worldVars, accumVars, signalVars>>
dispFrame == <<bvhVars, renderVars, lightVars, traceVars, matVars, nodeVars, worldVars, accumVars, signalVars>>
renderFrame == <<bvhVars, dispVars, lightVars, traceVars, matVars, nodeVars, worldVars, accumVars, signalVars>>
lightFrame == <<bvhVars, dispVars, renderVars, traceVars, matVars, nodeVars, worldVars, accumVars, signalVars>>
traceFrame == <<bvhVars, dispVars, renderVars, lightVars, matVars, nodeVars, worldVars, accumVars, signalVars>>
matFrame == <<bvhVars, dispVars, renderVars, lightVars, traceVars, nodeVars, worldVars, accumVars, signalVars>>
nodeFrame == <<bvhVars, dispVars, renderVars, lightVars, traceVars, matVars, worldVars, accumVars, signalVars>>
worldFrame == <<bvhVars, dispVars, renderVars, lightVars, traceVars, matVars, nodeVars, accumVars, signalVars>>
accumFrame == <<bvhVars, dispVars, renderVars, lightVars, traceVars, matVars, nodeVars, worldVars, signalVars>>
signalFrame == <<bvhVars, dispVars, renderVars, lightVars, traceVars, matVars, nodeVars, worldVars, accumVars>>

-----------------------------------------------------------------------------
(* Extended rationals: f32 values and their IEEE-754 operations.           *)

Abs(x) == IF x < 0 THEN -x ELSE x

\* n / d as f32 division does it: x/0 is +inf, -inf or NaN.
FDiv(n, d) ==
    IF d > 0 THEN <<n, d>>
    ELSE IF d < 0 THEN <<-n, -d>>
    ELSE IF n > 0 THEN <<1, 0>> ELSE IF n < 0 THEN <<-1, 0>> ELSE <<0, 0>>

FInt(n) == <<n, 1>>

IsNaN(a) == a[1] = 0 /\ a[2] = 0

\* a < b; false when either is NaN.
FLt(a, b) ==
    IF IsNaN(a) \/ IsNaN(b) THEN FALSE
    ELSE IF a[2] = 0 /\ b[2] = 0 THEN a[1] < b[1]
    ELSE a[1] * b[2] < b[1] * a[2]

FEq(a, b) ==
    IF IsNaN(a) \/ IsNaN(b) THEN FALSE
    ELSE IF a[2] = 0 \/ b[2] = 0 THEN a = b
    ELSE a[1] * b[2] = b[1] * a[2]

FLe(a, b) == FLt(a, b) \/ FEq(a, b)
FGt(a, b) == FLt(b, a)
FGe(a, b) == FLe(b, a)

\* f32::min and f32::max: if one argument is NaN the other is returned.
FMin(a, b) == IF IsNaN(a) THEN b ELSE IF IsNaN(b) THEN a ELSE IF FLt(b, a) THEN b ELSE a
FMax(a, b) == IF IsNaN(a) THEN b ELSE IF IsNaN(b) THEN a ELSE IF FLt(a, b) THEN b ELSE a

FAbs(a) == <<Abs(a[1]), a[2]>>

\* Integer vectors.
VSub(a, b) == <<a[1] - b[1], a[2] - b[2], a[3] - b[3]>>
VDot(a, b) == a[1] * b[1] + a[2] * b[2] + a[3] * b[3]
VCross(a, b) ==
    <<a[2] * b[3] - a[3] * b[2], a[3] * b[1] - a[1] * b[3], a[1] * b[2] - a[2] * b[1]>>

Max2(a, b) == IF a > b THEN a ELSE b

-----------------------------------------------------------------------------
(* Program constants.                                                      *)

\* Trace::miss().len = 1e6
MISS_LEN == 1000000
\* f32::MAX, the "no hit" value of intersect_aabb.  TLC's integers are 32-bit;
\* the model keeps only what the code uses: a finite value above every distance.
F32_MAX == 2000000
\* the self-intersection guard t > 0.001, as the rational 1 / T_MIN_DEN
T_MIN_DEN == 1000
\* the determinant threshold |det| < 1e-6, as 1 / DET_EPS_DEN
DET_EPS_DEN == 1000000
\* FixedVec::<usize, 32>
StackCap == 32

-----------------------------------------------------------------------------
(* Triangle intersection and the linear scan (inter.rs).                   *)

\* A ray: origin o, integer direction d of length s (unit direction d / s).
Ray(o, d, s) == [o |-> o, d |-> d, s |-> s]

\* muller_trumbore: hit, out_t and out_backface.  With pv, det taken times s
\* (the integer vector d in place of d / s): u = U/det, v = V/det, t = T*s/det.
muller_trumbore(ray, a, b, c) ==
    LET edge1 == VSub(b, a)
        edge2 == VSub(c, a)
        pv    == VCross(ray.d, edge2)
        det   == VDot(edge1, pv)
        tv    == VSub(ray.o, a)
        u     == FDiv(VDot(tv, pv), det)
        qv    == VCross(tv, edge1)
        v     == FDiv(VDot(ray.d, qv), det)
        upv   == FDiv(VDot(tv, pv) + VDot(ray.d, qv), det)
        t     == FDiv(VDot(edge2, qv) * ray.s, det)
        miss  == [hit |-> FALSE, t |-> FInt(0), backface |-> det < 0]
    IN  IF Abs(det) * DET_EPS_DEN < ray.s THEN miss
        ELSE IF FLt(u, FInt(0)) \/ FGt(u, FInt(1)) THEN miss
        ELSE IF FLt(v, FInt(0)) \/ FGt(upv, FInt(1)) THEN miss
        ELSE IF FLt(t, FInt(0)) THEN miss
        ELSE [hit |-> TRUE, t |-> t, backface |-> det < 0]

\* Trace::miss()
TraceMiss ==
    [triangle |-> <<0, 0, 0, 0>>, triangle_index |-> 0, len |-> FInt(MISS_LEN),
     hit |-> FALSE, backface |-> FALSE]

\* The vertices of triangle tri = <<i0, i1, i2, m>>.
VertexA(vs, tri) == vs[tri[1] + 1]
VertexB(vs, tri) == vs[tri[2] + 1]
VertexC(vs, tri) == vs[tri[3] + 1]

\* A triangle test without the max_t bound; not the code's.
TriangleAcceptedUnbounded(mt, res, nearest, maxt) ==
    /\ mt.hit
    /\ FGt(mt.t, FDiv(1, T_MIN_DEN))
    /\ FLt(mt.t, res.len)

\* The test of one triangle against the best hit so far, shared by the scan and
\* the leaf loop: t > 0.001 && t < result.len && (NEAREST || t <= max_t).
TriangleAccepted(mt, res, nearest, maxt) ==
    /\ mt.hit
    /\ FGt(mt.t, FDiv(1, T_MIN_DEN))
    /\ FLt(mt.t, res.len)
    /\ (nearest \/ FLe(mt.t, maxt))

RecordHit(res, tri, i, mt) ==
    [triangle |-> tri, triangle_index |-> i, len |-> FMin(res.len, mt.t),
     hit |-> TRUE, backface |-> mt.backface]

\* intersect_slow_as_shit: the loop over i in 0..index_buffer.len(), from i on.
RECURSIVE slow_loop(_, _, _, _, _)
slow_loop(vs, is, ray, res, i) ==
    IF i >= Len(is) THEN res
    ELSE LET tri == is[i + 1]
             mt  == muller_trumbore(ray, VertexA(vs, tri), VertexB(vs, tri), VertexC(vs, tri))
         IN  IF TriangleAccepted(mt, res, TRUE, FInt(0))
             THEN slow_loop(vs, is, ray, RecordHit(res, tri, i, mt), i + 1)
             ELSE slow_loop(vs, is, ray, res, i + 1)

intersect_slow_as_shit(vs, is, ray) == slow_loop(vs, is, ray, TraceMiss, 0)

-----------------------------------------------------------------------------
(* BVH nodes (shared/src/lib.rs) and the slab test (inter.rs).             *)

\* u32::MAX; the words of the check have 8 bits in place of 32.
U32_MAX == 255

\* A BVHNode: two Vec4, aabb_min and aabb_max.  The w of aabb_min holds the
\* bits of triangle_count, the w of aabb_max those of the slot shared by
\* left_node_index and first_triangle_index; core::mem::transmute between
\* u32 and f32 keeps the bits, so the w components are written as the u32.
triangle_count(n) == n.aabb_min[4]
left_node_index(n) == n.aabb_max[4]
\* self.left_node_index() + 1 in u32, as a build without overflow checks
\* computes it
right_node_index_same(n) == left_node_index(n)

right_node_index(n) == (left_node_index(n) + 1) % (U32_MAX + 1)
first_triangle_index(n) == n.aabb_max[4]
aabb_min_xyz(n) == <<n.aabb_min[1], n.aabb_min[2], n.aabb_min[3]>>
aabb_max_xyz(n) == <<n.aabb_max[1], n.aabb_max[2], n.aabb_max[3]>>
is_leaf(n) == triangle_count(n) > 0

\* set_aabb_min as a store of the whole Vec4; not the code's.
set_aabb_min_whole(n, v) == [n EXCEPT !.aabb_min = <<v[1], v[2], v[3], 0>>]

set_triangle_count(n, v) == [n EXCEPT !.aabb_min[4] = v]
set_left_node_index(n, v) == [n EXCEPT !.aabb_max[4] = v]
set_first_triangle_index(n, v) == [n EXCEPT !.aabb_max[4] = v]
set_aabb_min(n, v) == [n EXCEPT !.aabb_min = <<v[1], v[2], v[3], @[4]>>]
set_aabb_max(n, v) == [n EXCEPT !.aabb_max = <<v[1], v[2], v[3], @[4]>>]

NodeAt(ns, k) == ns[k + 1]

\* A slab test that wants the entry, not the exit, in front of the origin
\* (it misses the boxes the ray starts in); not the code's.
intersect_aabb_entry_ahead(aabb_min, aabb_max, ray, prev_min_t) ==
    LET tx1 == FDiv((aabb_min[1] - ray.o[1]) * ray.s, ray.d[1])
        tx2 == FDiv((aabb_max[1] - ray.o[1]) * ray.s, ray.d[1])
        ty1 == FDiv((aabb_min[2] - ray.o[2]) * ray.s, ray.d[2])
        ty2 == FDiv((aabb_max[2] - ray.o[2]) * ray.s, ray.d[2])
        tz1 == FDiv((aabb_min[3] - ray.o[3]) * ray.s, ray.d[3])
        tz2 == FDiv((aabb_max[3] - ray.o[3]) * ray.s, ray.d[3])
        tmin == FMax(FMax(FMin(tx1, tx2), FMin(ty1, ty2)), FMin(tz1, tz2))
        tmax == FMin(FMin(FMax(tx1, tx2), FMax(ty1, ty2)), FMax(tz1, tz2))
    IN  IF FGe(tmax, tmin) /\ FGt(tmin, FInt(0)) /\ FLt(tmin, prev_min_t)
        THEN tmin
        ELSE FInt(F32_MAX)

\* intersect_aabb: the slab test; the entry distance, or f32::MAX for a miss.
intersect_aabb(aabb_min, aabb_max, ray, prev_min_t) ==
    LET tx1 == FDiv((aabb_min[1] - ray.o[1]) * ray.s, ray.d[1])
        tx2 == FDiv((aabb_max[1] - ray.o[1]) * ray.s, ray.d[1])
        ty1 == FDiv((aabb_min[2] - ray.o[2]) * ray.s, ray.d[2])
        ty2 == FDiv((aabb_max[2] - ray.o[2]) * ray.s, ray.d[2])
        tz1 == FDiv((aabb_min[3] - ray.o[3]) * ray.s, ray.d[3])
        tz2 == FDiv((aabb_max[3] - ray.o[3]) * ray.s, ray.d[3])
        tmin == FMax(FMax(FMin(tx1, tx2), FMin(ty1, ty2)), FMin(tz1, tz2))
        tmax == FMin(FMin(FMax(tx1, tx2), FMax(ty1, ty2)), FMax(tz1, tz2))
    IN  IF FGe(tmax, tmin) /\ FGt(tmax, FInt(0)) /\ FLt(tmin, prev_min_t)
        THEN tmin
        ELSE FInt(F32_MAX)

-----------------------------------------------------------------------------
(* The BVH the traversal consumes.  The builder (crate::bvh) guarantees:   *)
(* every leaf covers a contiguous span of the index buffer, the two        *)
(* children of an interior node are stored contiguously, and a node's AABB *)
(* encloses every triangle of its subtree.                                 *)

\* The shapes of a tree over n triangles: <<"leaf">> or <<"node", k, l, r>>,
\* the first k triangles going to the left child.
RECURSIVE Shapes(_)
Shapes(n) ==
    {<<"leaf">>} \cup
    UNION {{<<"node", k, l, r>> : l \in Shapes(k), r \in Shapes(n - k)} : k \in 1..(n - 1)}

\* The tree that splits off one triangle per level: n leaves, n levels.
RECURSIVE Chain(_)
Chain(n) == IF n <= 1 THEN <<"leaf">> ELSE <<"node", 1, <<"leaf">>, Chain(n - 1)>>

SpanPoints(vs, is, first, count) ==
    UNION {{VertexA(vs, is[first + i + 1]), VertexB(vs, is[first + i + 1]),
            VertexC(vs, is[first + i + 1])} : i \in 0..(count - 1)}

SetMin(S) == CHOOSE m \in S : \A x \in S : m <= x
SetMax(S) == CHOOSE m \in S : \A x \in S : m >= x

\* The AABB of a span, grown by pad on every side.
SpanMin(vs, is, first, count, pad) ==
    LET P == SpanPoints(vs, is, first, count)
    IN  <<SetMin({p[1] : p \in P}) - pad, SetMin({p[2] : p \in P}) - pad,
          SetMin({p[3] : p \in P}) - pad>>
SpanMax(vs, is, first, count, pad) ==
    LET P == SpanPoints(vs, is, first, count)
    IN  <<SetMax({p[1] : p \in P}) + pad, SetMax({p[2] : p \in P}) + pad,
          SetMax({p[3] : p \in P}) + pad>>

BlankNode == [aabb_min |-> <<0, 0, 0, 0>>, aabb_max |-> <<0, 0, 0, 0>>]

\* Fill node k of ns for the span [first, first + count) split as shape says;
\* the children of an interior node take the next two free slots.
RECURSIVE BuildNode(_, _, _, _, _, _, _, _)
BuildNode(ns, k, shape, first, count, vs, is, pad) ==
    LET mn == SpanMin(vs, is, first, count, pad)
        mx == SpanMax(vs, is, first, count, pad)
    IN  IF shape[1] = "leaf"
        THEN [ns EXCEPT ![k + 1] =
                 set_first_triangle_index(set_triangle_count(
                     set_aabb_max(set_aabb_min(BlankNode, mn), mx), count), first)]
        ELSE LET left == Len(ns)
                 ns1  == [ns EXCEPT ![k + 1] =
                            set_left_node_index(set_triangle_count(
                                set_aabb_max(set_aabb_min(BlankNode, mn), mx), 0), left)]
                         \o <<BlankNode, BlankNode>>
                 ns2  == BuildNode(ns1, left, shape[3], first, shape[2], vs, is, pad)
             \* the left subtree is built before the right one is begun
             IN  IF Len(ns2) = 0 THEN ns2
                 ELSE BuildNode(ns2, left + 1, shape[4], first + shape[2], count - shape[2],
                                vs, is, pad)

BuildBVH(shape, vs, is, pad) == BuildNode(<<BlankNode>>, 0, shape, 0, Len(is), vs, is, pad)

\* The number of nodes on the longest path from node k down to a leaf.
RECURSIVE Levels(_, _)
Levels(ns, k) ==
    IF is_leaf(NodeAt(ns, k)) THEN 1
    ELSE 1 + Max2(Levels(ns, left_node_index(NodeAt(ns, k))),
                  Levels(ns, right_node_index(NodeAt(ns, k))))

-----------------------------------------------------------------------------
(* BVHReference::intersect_front_to_back (inter.rs), one action per        *)
(* iteration of its while loop.                                            *)

CurRay == Ray(ro, rd, rs)

\* FixedVec: the stack is a sequence, its top the last element.
PopRest(st) == SubSeq(st, 1, Len(st) - 1)
Top(st) == st[Len(st)]

\* The loop over the triangles of a leaf, from triangle i on: the Trace and
\* whether the function returned from inside the loop (any-hit mode).
RECURSIVE leaf_loop(_, _, _, _, _, _, _, _)
leaf_loop(vs, is, ray, nearest, maxt, node, res, i) ==
    IF i >= triangle_count(node) THEN [res |-> res, returned |-> FALSE]
    ELSE LET triangle_index == first_triangle_index(node) + i
             tri == is[triangle_index + 1]
             mt  == muller_trumbore(ray, VertexA(vs, tri), VertexB(vs, tri), VertexC(vs, tri))
         IN  IF TriangleAccepted(mt, res, nearest, maxt)
             THEN IF ~nearest
                  THEN [res |-> RecordHit(res, tri, triangle_index, mt), returned |-> TRUE]
                  ELSE leaf_loop(vs, is, ray, nearest, maxt, node,
                                 RecordHit(res, tri, triangle_index, mt), i + 1)
             ELSE leaf_loop(vs, is, ray, nearest, maxt, node, res, i + 1)

\* Children pushed without the farther one; not the code's.
ChildPushesNearOnly(ns, node, ray, res) ==
    LET l  == left_node_index(node)
        r  == right_node_index(node)
        dl == intersect_aabb(NodeAt(ns, l).aabb_min, NodeAt(ns, l).aabb_max, ray, res.len)
        dr == intersect_aabb(NodeAt(ns, r).aabb_min, NodeAt(ns, r).aabb_max, ray, res.len)
        swap == FGt(dl, dr)
        min_index == IF swap THEN r ELSE l
        min_dist  == IF swap THEN dr ELSE dl
    IN  IF FEq(FAbs(min_dist), FInt(F32_MAX)) THEN <<>> ELSE <<min_index>>

\* A push order that is not the code's: the nearer child first.
ChildPushesNearFirst(ns, node, ray, res) ==
    LET l  == left_node_index(node)
        r  == right_node_index(node)
        dl == intersect_aabb(NodeAt(ns, l).aabb_min, NodeAt(ns, l).aabb_max, ray, res.len)
        dr == intersect_aabb(NodeAt(ns, r).aabb_min, NodeAt(ns, r).aabb_max, ray, res.len)
        swap == FGt(dl, dr)
        min_index == IF swap THEN r ELSE l
        max_index == IF swap THEN l ELSE r
        min_dist  == IF swap THEN dr ELSE dl
        max_dist  == IF swap THEN dl ELSE dr
    IN  IF FEq(FAbs(min_dist), FInt(F32_MAX)) THEN <<>>
        ELSE <<min_index>>
             \o (IF FLt(FAbs(max_dist), FInt(F32_MAX)) THEN <<max_index>> ELSE <<>>)

\* The children of an interior node in the order the code pushes them:
\* nothing when the nearer child is missed, the farther child only if it is hit.
ChildPushes(ns, node, ray, res) ==
    LET l  == left_node_index(node)
        r  == right_node_index(node)
        dl == intersect_aabb(NodeAt(ns, l).aabb_min, NodeAt(ns, l).aabb_max, ray, res.len)
        dr == intersect_aabb(NodeAt(ns, r).aabb_min, NodeAt(ns, r).aabb_max, ray, res.len)
        swap == FGt(dl, dr)
        min_index == IF swap THEN r ELSE l
        max_index == IF swap THEN l ELSE r
        min_dist  == IF swap THEN dr ELSE dl
        max_dist  == IF swap THEN dl ELSE dr
    IN  IF FEq(FAbs(min_dist), FInt(F32_MAX)) THEN <<>>
        ELSE (IF FLt(FAbs(max_dist), FInt(F32_MAX)) THEN <<max_index>> ELSE <<>>)
             \o <<min_index>>

sceneVars == <<vertices, indices, nodes, ro, rd, rs, NEAREST, max_t>>

\* The push counts after the node indices of seq are pushed.
CountPushes(counts, seq) ==
    [k \in 1..Len(counts) |-> counts[k] + Cardinality({i \in 1..Len(seq) : seq[i] = k - 1})]

\* stack.push(0), before the loop
RootPushed(ns) == [k \in 1..Len(ns) |-> IF k = 1 THEN 1 ELSE 0]

\* A leaf is popped: its triangles are tested, and any-hit returns on a hit.
StepLeaf ==
    /\ pc = "loop"
    /\ stack # <<>>
    /\ is_leaf(NodeAt(nodes, Top(stack)))
    /\ LET out == leaf_loop(vertices, indices, CurRay, NEAREST, max_t,
                            NodeAt(nodes, Top(stack)), result, 0)
       IN  /\ result' = out.res
           /\ pc' = IF out.returned THEN "done" ELSE "loop"
    /\ stack' = PopRest(stack)
    /\ pops' = pops + 1
    /\ UNCHANGED push_count
    /\ UNCHANGED sceneVars
    /\ UNCHANGED bvhFrame

\* An interior node is read off the top but left on the stack, and its
\* children are pushed; not the code's.
StepInteriorPeek ==
    /\ pc = "loop"
    /\ stack # <<>>
    /\ ~is_leaf(NodeAt(nodes, Top(stack)))
    /\ LET st == stack \o ChildPushes(nodes, NodeAt(nodes, Top(stack)), CurRay, result)
       IN  /\ stack' = st
           /\ pc' = IF Len(st) > StackCap THEN "overflow" ELSE "loop"
    /\ push_count' = CountPushes(push_count, ChildPushes(nodes, NodeAt(nodes, Top(stack)), CurRay, result))
    /\ pops' = pops + 1
    /\ UNCHANGED <<result>>
    /\ UNCHANGED sceneVars
    /\ UNCHANGED bvhFrame

\* An interior node is popped: its children are pushed, the nearer one last.
\* A push past the capacity of the FixedVec ends the traversal in an error.
StepInterior ==
    /\ pc = "loop"
    /\ stack # <<>>
    /\ ~is_leaf(NodeAt(nodes, Top(stack)))
    /\ LET st == PopRest(stack) \o ChildPushes(nodes, NodeAt(nodes, Top(stack)), CurRay, result)
       IN  /\ stack' = st
           /\ pc' = IF Len(st) > StackCap THEN "overflow" ELSE "loop"
    /\ push_count' = CountPushes(push_count, ChildPushes(nodes, NodeAt(nodes, Top(stack)), CurRay, result))
    /\ pops' = pops + 1
    /\ UNCHANGED <<result>>
    /\ UNCHANGED sceneVars
    /\ UNCHANGED bvhFrame

\* The stack is empty: the function returns result.
Return ==
    /\ pc = "loop"
    /\ stack = <<>>
    /\ pc' = "done"
    /\ UNCHANGED <<stack, result, push_count, pops>>
    /\ UNCHANGED sceneVars
    /\ UNCHANGED bvhFrame

NextBVH == StepLeaf \/ StepInterior \/ Return

\* The thread goes on: the loop condition is tested and the body, or the
\* return, follows.
Advance ==
    /\ pc = "loop"
    /\ pops' \in {pops, pops + 1}
    /\ pc' \in {"loop", "done", "overflow"}
loopVars == <<pops, pc>>

-----------------------------------------------------------------------------
(* The scenes and queries of the bounded check.                            *)

\* The most triangles in an index buffer.
MaxTris == 3

\* Vertex positions: a square in the plane z = 0, a triangle above it in z = 2.
Vertices ==
    << <<0, 0, 0>>, <<2, 0, 0>>, <<0, 2, 0>>, <<2, 2, 0>>,
       <<0, 0, 2>>, <<2, 0, 2>>, <<0, 2, 2>> >>

\* Two triangles sharing an edge in z = 0, a parallel one in z = 2, a slanted one.
TrianglePool == {<<0, 1, 2, 0>>, <<1, 3, 2, 0>>, <<4, 5, 6, 1>>, <<0, 1, 6, 0>>}

IndexBuffers ==
    {s \in UNION {[1..n -> TrianglePool] : n \in 1..MaxTris} :
        \A i, j \in DOMAIN s : i # j => s[i] # s[j]}

Origins == {<<x, y, z>> : x \in {0, 1}, y \in {0, 1}, z \in {-1, 0, 3}}

\* Unit directions as <<integer vector, its length>>.
Directions ==
    {<< <<0, 0, 1>>, 1>>, << <<0, 0, -1>>, 1>>, << <<1, 0, 0>>, 1>>, << <<1, 2, 2>>, 3>>}

\* intersect_nearest passes max_t = 0.0; intersect_any passes the light distance.
Queries ==
    {<<TRUE, FInt(0)>>} \cup {<<FALSE, m>> : m \in {FDiv(1, 2), FInt(1), FInt(3)}}

\* How far the builder's boxes exceed the triangles they enclose.
Pads == {0, 1}

BvhQueryInit ==
    /\ vertices = Vertices
    /\ indices \in IndexBuffers
    /\ \E shape \in Shapes(Len(indices)), pad \in Pads :
          nodes = BuildBVH(shape, vertices, indices, pad)
    /\ ro \in Origins
    /\ \E dir \in Directions : rd = dir[1] /\ rs = dir[2]
    /\ \E q \in Queries : NEAREST = q[1] /\ max_t = q[2]
    /\ stack = <<0>>
    /\ result = TraceMiss
    /\ push_count = RootPushed(nodes)
    /\ pops = 0
    /\ pc = "loop"

\* The traversal at rest, for the specifications of the other components.
BvhIdle ==
    /\ vertices = <<>> /\ indices = <<>> /\ nodes = <<>>
    /\ ro = <<0, 0, 0>> /\ rd = <<0, 0, 1>> /\ rs = 1
    /\ NEAREST = TRUE /\ max_t = FInt(0)
    /\ stack = <<>> /\ result = TraceMiss /\ push_count = <<>> /\ pops = 0 /\ pc = "done"

-----------------------------------------------------------------------------
(* Deep trees: n parallel triangles in the planes z = 0 .. n-1 under the   *)
(* chain tree of n levels, with rays along the z axis.                     *)

\* The most levels of a chain tree: one more than the stack holds.
MaxLevels == 33

StackedVertices(n) ==
    [k \in 1..(3 * n) |->
        LET i == (k - 1) \div 3
            c == (k - 1) % 3
        IN  IF c = 0 THEN <<0, 0, i>> ELSE IF c = 1 THEN <<4, 0, i>> ELSE <<0, 4, i>>]

StackedIndices(n) == [i \in 1..n |-> <<3 * (i - 1), 3 * (i - 1) + 1, 3 * (i - 1) + 2, 0>>]

\* From beyond the last plane towards the first, from before the first plane
\* towards the last, and beside all of them.
DeepRays(n) ==
    {<< <<1, 1, n>>, <<0, 0, -1>>, 1>>, << <<1, 1, -1>>, <<0, 0, 1>>, 1>>,
     << <<5, 5, n>>, <<0, 0, -1>>, 1>>}

DeepQueries == {<<TRUE, FInt(0)>>, <<FALSE, FDiv(1, 2)>>, <<FALSE, FInt(2)>>}

DeepQueryInit ==
    /\ \E n \in 1..MaxLevels :
          /\ vertices = StackedVertices(n)
          /\ indices = StackedIndices(n)
          /\ nodes = BuildBVH(Chain(n), StackedVertices(n), StackedIndices(n), 0)
          /\ \E r \in DeepRays(n) : ro = r[1] /\ rd = r[2] /\ rs = r[3]
    /\ \E q \in DeepQueries : NEAREST = q[1] /\ max_t = q[2]
    /\ stack = <<0>>
    /\ result = TraceMiss
    /\ push_count = RootPushed(nodes)
    /\ pops = 0
    /\ pc = "loop"


-----------------------------------------------------------------------------
(* Claims about the traversal.                                             *)

\* The triangles a query may report: hit by the ray at a distance t with
\* 0.001 < t < 1e6, and t <= max_t in any-hit mode.
Qualifies(i) ==
    LET tri == indices[i + 1]
        mt  == muller_trumbore(CurRay, VertexA(vertices, tri), VertexB(vertices, tri),
                               VertexC(vertices, tri))
    IN  TriangleAccepted(mt, TraceMiss, NEAREST, max_t)

HitDistance(i) ==
    LET tri == indices[i + 1]
    IN  muller_trumbore(CurRay, VertexA(vertices, tri), VertexB(vertices, tri),
                        VertexC(vertices, tri)).t

\* The triangles under node k.
RECURSIVE SubtreeTriangles(_, _)
SubtreeTriangles(ns, k) ==
    LET node == NodeAt(ns, k) IN
    IF is_leaf(node)
    THEN first_triangle_index(node)..(first_triangle_index(node) + triangle_count(node) - 1)
    ELSE SubtreeTriangles(ns, left_node_index(node))
             \cup SubtreeTriangles(ns, right_node_index(node))

\* A valid BVH: the AABB of every node strictly encloses every triangle
\* under it.
ValidBVH ==
    \A k \in 0..(Len(nodes) - 1) : \A i \in SubtreeTriangles(nodes, k) : \A c \in 1..3 :
        \A a \in 1..3 :
            /\ NodeAt(nodes, k).aabb_min[a] < vertices[indices[i + 1][c] + 1][a]
            /\ vertices[indices[i + 1][c] + 1][a] < NodeAt(nodes, k).aabb_max[a]

\* C1: when intersect_nearest returns on a valid BVH, its outcome is that of
\* the linear scan intersect_slow_as_shit over the same buffers: both miss, or
\* both hit the same triangle index at the same distance.
C1_NearestEqualsLinearScan ==
    (pc = "done" /\ NEAREST /\ ValidBVH) =>
        LET lin == intersect_slow_as_shit(vertices, indices, CurRay)
        IN  /\ result.hit = lin.hit
            /\ result.hit =>
                  (result.triangle_index = lin.triangle_index /\ FEq(result.len, lin.len))

\* C1 as amended: on a valid BVH both miss, or both hit at the same distance,
\* the smallest t > 0.001 over all triangles, and the triangle returned is one
\* the ray hits at that distance.
C1_NearestDistanceEqualsLinearScan ==
    (pc = "done" /\ NEAREST /\ ValidBVH) =>
        LET lin == intersect_slow_as_shit(vertices, indices, CurRay)
        IN  /\ result.hit = lin.hit
            /\ result.hit =>
                  /\ FEq(result.len, lin.len)
                  /\ \A i \in 0..(Len(indices) - 1) :
                        Qualifies(i) => FLe(result.len, HitDistance(i))
                  /\ Qualifies(result.triangle_index)
                  /\ FEq(HitDistance(result.triangle_index), result.len)
                  /\ result.triangle = indices[result.triangle_index + 1]

\* Two triangles are hit at the same smallest distance; the traversal returns
\* one, the linear scan the other.
C1_Witness ==
    /\ pc = "done" /\ NEAREST /\ ValidBVH /\ result.hit
    /\ LET lin == intersect_slow_as_shit(vertices, indices, CurRay)
       IN  lin.hit /\ result.triangle_index # lin.triangle_index /\ FEq(result.len, lin.len)

\* C2: when intersect_any returns a Trace with hit = true, its distance len
\* is at most max_t.
C2_AnyHitWithinMaxT ==
    (pc = "done" /\ ~NEAREST /\ result.hit) => FLe(result.len, max_t)

\* C2 witness: any-hit returned a hit although a triangle beyond max_t is on the ray.
C2_Witness ==
    /\ pc = "done" /\ ~NEAREST /\ result.hit
    /\ \E i \in 0..(Len(indices) - 1) :
          LET tri == indices[i + 1]
              mt  == muller_trumbore(CurRay, VertexA(vertices, tri), VertexB(vertices, tri),
                                     VertexC(vertices, tri))
          IN  mt.hit /\ FGt(mt.t, max_t)

C4_StackWithinCapacity ==
    Levels(nodes, 0) <= StackCap => Len(stack) <= StackCap

\* C4 witness: a tree of exactly 32 levels fills the stack to its capacity.
C4_Witness ==
    /\ Levels(nodes, 0) = StackCap
    /\ Len(stack) = StackCap
    /\ pc = "loop"


\* The entry distance of the ray into the box of node k, for the best hit
\* so far; f32::MAX when the box is missed or lies beyond that hit.
ChildDist(k) ==
    intersect_aabb(NodeAt(nodes, k).aabb_min, NodeAt(nodes, k).aabb_max, CurRay, result.len)
ChildHit(k) == ChildDist(k) # FInt(F32_MAX)

\* C18: a step at an interior node replaces the node on the stack by nothing
\* if neither child's box is hit, by the one child that is hit, and by the
\* farther child below the nearer child if both are hit.
C18_NearerChildOnTop ==
    [][(pc = "loop" /\ stack # <<>> /\ ~is_leaf(NodeAt(nodes, Top(stack))) /\ stack' # stack)
        => LET node == NodeAt(nodes, Top(stack))
               l == left_node_index(node)
               r == right_node_index(node)
               pushed == SubSeq(stack', Len(stack), Len(stack'))
           IN /\ SubSeq(stack', 1, Len(stack) - 1) = PopRest(stack)
              /\ (~ChildHit(l) /\ ~ChildHit(r)) => pushed = <<>>
              /\ (ChildHit(l) /\ ~ChildHit(r)) => pushed = <<l>>
              /\ (~ChildHit(l) /\ ChildHit(r)) => pushed = <<r>>
              /\ (ChildHit(l) /\ ChildHit(r)) =>
                    /\ pushed \in {<<l, r>>, <<r, l>>}
                    /\ FLe(ChildDist(pushed[2]), ChildDist(pushed[1]))]_vars

\* The root's children after the first step, both boxes hit and the right
\* child strictly nearer: it lies on top of the left child.
C18_Witness ==
    /\ pc = "loop" /\ result = TraceMiss /\ Len(nodes) >= 3 /\ ~is_leaf(NodeAt(nodes, 0))
    /\ stack = <<left_node_index(NodeAt(nodes, 0)), right_node_index(NodeAt(nodes, 0))>>
    /\ ChildHit(stack[1]) /\ ChildHit(stack[2])
    /\ FLt(ChildDist(stack[2]), ChildDist(stack[1]))


\* C27: the traversal terminates on the tree of every scene: no node index
\* is pushed more than once in a query, so the pop loop makes at most as
\* many iterations as the buffer has nodes, it pops only from a stack that
\* holds an entry, and the query comes to its end.
C27_TraversalTerminates ==
    /\ [](/\ \A k \in 1..Len(push_count) : push_count[k] <= 1
          /\ pops <= Len(nodes))
    /\ [][pops' = pops + 1 => stack # <<>>]_vars
    /\ <>(pc \in {"done", "overflow"})

\* A nearest-hit query whose ray crossed every box of a tree of five nodes:
\* every node was pushed once and the loop made one iteration per node.
C27_Witness ==
    /\ pc = "done" /\ Len(nodes) = 5 /\ pops = 5
    /\ \A k \in 1..Len(push_count) : push_count[k] = 1

-----------------------------------------------------------------------------
(* One dispatch of the compute kernel main_cs (kernels/simple/src/lib.rs)  *)
(* as trace_gpu enqueues it (src/compute.rs): thread groups of 8 x 8 x 1,  *)
(* div_ceil(width, 8) x div_ceil(height, 8) x 1 groups.  Two invocations   *)
(* of the dispatch are followed; they run concurrently.                    *)

\* #[spirv(compute(threads(8, 8, 1)))]
GroupSize == 8

\* The largest image width and height of the check.
MaxW == 9
MaxH == 2

NoSlot == 0 - 1

div_ceil(a, b) == (a + b - 1) \div b

\* The global invocation ids of the dispatch enqueue(div_ceil(w, 8), div_ceil(h, 8), 1).
DispatchIds(w, h) ==
    {<<x, y>> : x \in 0..(GroupSize * div_ceil(w, GroupSize) - 1),
                y \in 0..(GroupSize * div_ceil(h, GroupSize) - 1)}

\* let index = (id.y * config.width + id.x) as usize;
PixelIndex(id, width) == id[2] * width + id[1]

\* Invocation i computes its index, reads rng[index] and traces the pixel.
MainCsTrace(i) ==
    /\ ipc[i] = "start"
    /\ slot' = [slot EXCEPT ![i] = PixelIndex(inv[i], cfgW)]
    /\ ipc' = [ipc EXCEPT ![i] = "traced"]
    /\ UNCHANGED <<cfgW, cfgH, inv>>
    /\ UNCHANGED dispFrame

\* Invocation i adds the pixel to output[index] and stores rng[index].
MainCsStore(i) ==
    /\ ipc[i] = "traced"
    /\ ipc' = [ipc EXCEPT ![i] = "done"]
    /\ UNCHANGED <<cfgW, cfgH, inv, slot>>
    /\ UNCHANGED dispFrame

NextDispatch == \E i \in {1, 2} : MainCsTrace(i) \/ MainCsStore(i)

DispatchInit ==
    /\ cfgW \in 1..MaxW
    /\ cfgH \in 1..MaxH
    /\ inv \in {f \in [{1, 2} -> DispatchIds(cfgW, cfgH)] : f[1] # f[2]}
    /\ ipc = [i \in {1, 2} |-> "start"]
    /\ slot = [i \in {1, 2} |-> NoSlot]

DispatchIdle ==
    /\ cfgW = 0 /\ cfgH = 0
    /\ inv = [i \in {1, 2} |-> <<0, 0>>]
    /\ ipc = [i \in {1, 2} |-> "done"]
    /\ slot = [i \in {1, 2} |-> NoSlot]

\* C5: two distinct invocations of one dispatch never use the same slot of
\* output and rng: when one computes an index of the buffers, the other
\* computes a different one.
C5_PixelSlotsExclusive ==
    (slot[1] # NoSlot /\ slot[2] # NoSlot /\ slot[1] < cfgW * cfgH) => slot[1] # slot[2]

-----------------------------------------------------------------------------
(* Arithmetic of extended rationals (f32 +, *, /).  The sign of zero is    *)
(* not kept.                                                               *)

RECURSIVE Gcd(_, _)
Gcd(a, b) == IF b = 0 THEN a ELSE Gcd(b, a % b)

\* n / d for d > 0, in lowest terms.
FNorm(n, d) ==
    LET g == Gcd(Abs(n), d) IN <<n \div g, d \div g>>

IsFinite(a) == a[2] > 0
Sign(n) == IF n > 0 THEN 1 ELSE IF n < 0 THEN -1 ELSE 0

FAdd(a, b) ==
    IF IsNaN(a) \/ IsNaN(b) THEN <<0, 0>>
    ELSE IF a[2] = 0 /\ b[2] = 0 THEN (IF a = b THEN a ELSE <<0, 0>>)
    ELSE IF a[2] = 0 THEN a
    ELSE IF b[2] = 0 THEN b
    ELSE FNorm(a[1] * b[2] + b[1] * a[2], a[2] * b[2])

FNeg(a) == <<-a[1], a[2]>>
FSub(a, b) == FAdd(a, FNeg(b))

FMul(a, b) ==
    IF IsNaN(a) \/ IsNaN(b) THEN <<0, 0>>
    ELSE IF a[2] = 0 \/ b[2] = 0 THEN <<Sign(a[1]) * Sign(b[1]), 0>>
    ELSE FNorm(a[1] * b[1], a[2] * b[2])

FQuot(a, b) ==
    IF IsNaN(a) \/ IsNaN(b) THEN <<0, 0>>
    ELSE IF a[2] = 0 /\ b[2] = 0 THEN <<0, 0>>
    ELSE IF a[2] = 0 THEN <<a[1] * (IF b[1] < 0 THEN -1 ELSE 1), 0>>
    ELSE IF b[2] = 0 THEN <<0, 1>>
    ELSE IF b[1] = 0 THEN FDiv(a[1], 0)
    ELSE FNorm(Sign(b[1]) * a[1] * b[2], a[2] * Abs(b[1]))

-----------------------------------------------------------------------------
(* render (src/rendering.rs): a pool of workers maps the ray indices       *)
(* 0..num_rays to items (pixel_idx, color) and sends them over a bounded   *)
(* channel; the calling thread receives and accumulates.                   *)

\* the pool's worker threads
Workers == {1, 2}
\* the cameras of the check
Cameras == {[width |-> 1, height |-> 1], [width |-> 2, height |-> 1], [width |-> 1, height |-> 2]}
\* the largest num_samples of the check
MaxSamples == 2
\* channel::bounded(1024), scaled down so that senders do block
ChannelCap == 2
\* R: Rng + SeedableRng, a generator with RngMod states
RngMod == 8
\* PathTracer.depth
TracerDepth == 2

\* R::seed_from_u64
seed_from_u64(n) == (3 * n + 1) % RngMod
\* one step of the generator: the next state
RngNext(s) == (5 * s + 3) % RngMod
\* Standard.sample(&mut rng): a value of [0, 1), s / RngMod
RngSample(s) == FNorm(s, RngMod)

NoItem == [ray |-> -1, pixel_idx |-> -1, color |-> <<0, 1>>, by |-> 0]

\* Tracer::trace: up to depth bounces, each decided by the scene and a draw
\* of the generator: the ray leaves the scene (None), meets an emitter
\* (Some(vatt * emission)) or is scattered with attenuation 1/2.
RECURSIVE tracer_trace(_, _, _, _)
tracer_trace(jx, jy, rng, k) ==
    IF k = 0 THEN [some |-> FALSE, color |-> <<0, 1>>]
    ELSE LET u == (rng + jx[1] + jy[1]) % 3 IN
         IF u = 0 THEN [some |-> FALSE, color |-> <<0, 1>>]
         ELSE IF u = 1 THEN [some |-> TRUE, color |-> <<1, 1>>]
         ELSE LET r == tracer_trace(jx, jy, RngNext(rng), k - 1) IN
              [some |-> r.some, color |-> FMul(<<1, 2>>, r.color)]

\* A pixel choice that is not the code's: consecutive rays to one pixel.
PixelOfStride(ray_idx, n_pixels) == ray_idx \div n_pixels
\* let pixel_idx = ray_idx % num_pixels;
PixelOf(ray_idx, n_pixels) == ray_idx % n_pixels

\* A seeding that is not the code's: one generator per worker thread.
WorkerSeedOfThread(w, ray_idx) == seed_from_u64(w)
\* let mut rng = R::seed_from_u64(ray_idx as u64); in worker w
WorkerSeed(w, ray_idx) == seed_from_u64(ray_idx)

\* The body of the map closure from a seeded generator on.
RayItem(cam, ray_idx, rng0, w) ==
    LET pixel_idx == PixelOf(ray_idx, cam.width * cam.height)
        y == pixel_idx \div cam.width
        x == pixel_idx % cam.width
        jx == FAdd(FInt(x), RngSample(rng0))
        rng1 == RngNext(rng0)
        jy == FAdd(FInt(y), RngSample(rng1))
        rng2 == RngNext(rng1)
        opt_color == tracer_trace(jx, jy, rng2, TracerDepth)
    IN [ray |-> ray_idx, pixel_idx |-> pixel_idx,
        color |-> IF opt_color.some THEN opt_color.color ELSE <<0, 1>>, by |-> w]

\* A conversion that is not the code's: the fraction is cut off.
into_rgb8_truncating(v) ==
    IF IsNaN(v) THEN -1
    ELSE LET c == FMin(FMax(v, <<0, 1>>), <<1, 1>>) IN (255 * c[1]) \div c[2]

\* into_rgb8, one channel: (v.clamp(0, 1) * 255).round().to_u8().unwrap();
\* a NaN stays NaN through clamp, and to_u8 of it is None: -1 here.
into_rgb8(v) ==
    IF IsNaN(v) THEN -1
    ELSE LET c == FMin(FMax(v, <<0, 1>>), <<1, 1>>) IN (2 * 255 * c[1] + c[2]) \div (2 * c[2])


num_pixels == camera.width * camera.height
num_rays == num_pixels * num_samples

\* A worker takes a ray index nobody has taken (the pool hands out every index
\* of 0..num_rays once) and seeds its generator.
WorkerTake(w) ==
    /\ wk[w].st = "idle"
    /\ \E r \in pending :
        /\ pending' = pending \ {r}
        /\ wk' = [wk EXCEPT ![w] = [st |-> "seeded", ray |-> r,
                                    rng |-> WorkerSeed(w, r), item |-> NoItem]]
    /\ UNCHANGED <<camera, num_samples, chan, colors, delivered, rpc, img>>
    /\ UNCHANGED renderFrame

\* The map closure: jitter, camera ray, tracer.trace.
WorkerTrace(w) ==
    /\ wk[w].st = "seeded"
    /\ wk' = [wk EXCEPT ![w].st = "traced",
                        ![w].item = RayItem(camera, wk[w].ray, wk[w].rng, w)]
    /\ UNCHANGED <<camera, num_samples, pending, chan, colors, delivered, rpc, img>>
    /\ UNCHANGED renderFrame

\* s.send(x).unwrap(): blocks while the channel is full.
WorkerSend(w) ==
    /\ wk[w].st = "traced"
    /\ Len(chan) < ChannelCap
    /\ chan' = Append(chan, wk[w].item)
    /\ wk' = [wk EXCEPT ![w] = [st |-> "idle", ray |-> -1, rng |-> 0, item |-> NoItem]]
    /\ UNCHANGED <<camera, num_samples, pending, colors, delivered, rpc, img>>
    /\ UNCHANGED renderFrame

\* for (pixel_idx, color) in receiver.iter() { colors[pixel_idx] += color; }
Receive ==
    /\ rpc = "recv"
    /\ chan # <<>>
    /\ LET it == Head(chan) IN
        /\ colors' = [colors EXCEPT ![it.pixel_idx + 1] = FAdd(@, it.color)]
        /\ delivered' = [delivered EXCEPT ![it.ray + 1] = Append(@, it.pixel_idx)]
    /\ chan' = Tail(chan)
    /\ UNCHANGED <<camera, num_samples, pending, wk, rpc, img>>
    /\ UNCHANGED renderFrame

\* receiver.iter() ends: the channel is empty and every sender is dropped,
\* which is when the parallel iterator has run every index.
ReceiveEnd ==
    /\ rpc = "recv"
    /\ chan = <<>>
    /\ pending = {}
    /\ \A w \in Workers : wk[w].st = "idle"
    /\ rpc' = "join"
    /\ UNCHANGED <<camera, num_samples, pending, wk, chan, colors, delivered, img>>
    /\ UNCHANGED renderFrame

\* t.join().unwrap(), then the image of the per-pixel means.
JoinAndImage ==
    /\ rpc = "join"
    /\ LET px == [p \in 1..num_pixels |-> into_rgb8(FQuot(colors[p], FInt(num_samples)))] IN
        IF \E p \in 1..num_pixels : px[p] < 0
        THEN rpc' = "panic" /\ img' = img
        ELSE rpc' = "done" /\ img' = px
    /\ UNCHANGED <<camera, num_samples, pending, wk, chan, colors, delivered>>
    /\ UNCHANGED renderFrame

NextRender ==
    \/ \E w \in Workers : WorkerTake(w) \/ WorkerTrace(w) \/ WorkerSend(w)
    \/ Receive
    \/ ReceiveEnd
    \/ JoinAndImage

RenderInit ==
    /\ camera \in Cameras
    /\ num_samples \in 0..MaxSamples
    /\ pending = 0..(num_rays - 1)
    /\ wk = [w \in Workers |-> [st |-> "idle", ray |-> -1, rng |-> 0, item |-> NoItem]]
    /\ chan = <<>>
    /\ colors = [p \in 1..num_pixels |-> <<0, 1>>]
    /\ delivered = [r \in 1..num_rays |-> <<>>]
    /\ rpc = "recv"
    /\ img = <<>>

RenderIdle ==
    /\ camera = [width |-> 0, height |-> 0]
    /\ num_samples = 0
    /\ pending = {}
    /\ wk = [w \in Workers |-> [st |-> "idle", ray |-> -1, rng |-> 0, item |-> NoItem]]
    /\ chan = <<>>
    /\ colors = <<>>
    /\ delivered = <<>>
    /\ rpc = "done"
    /\ img = <<>>

ItemOfRay(r) ==
    LET it == RayItem(camera, r, seed_from_u64(r), 0) IN
    [pixel_idx |-> r % num_pixels, color |-> it.color]

SameItem(it) ==
    /\ it.pixel_idx = ItemOfRay(it.ray).pixel_idx
    /\ it.color = ItemOfRay(it.ray).color

Blocked(w) == wk[w].st = "traced" /\ Len(chan) = ChannelCap

\* The threads of render never all wait for one another: the receiving loop
\* takes an item from a full channel, so a blocked send goes through, and the
\* loop ends and the producer is joined once every ray index has been run
\* and received.
RenderReachesJoin ==
    /\ \A w \in Workers : Blocked(w) ~> (wk[w].st = "idle")
    /\ <>(rpc \in {"done", "panic"} /\ pending = {} /\ chan = <<>>)

\* C29: render never deadlocks and always returns: a worker blocked on the
\* full channel is eventually unblocked, the receiving loop ends once every
\* result is received and every sender is dropped, the producer is joined,
\* and render returns its image, for num_rays = 0 too.
C29_RenderAlwaysReturns ==
    /\ \A w \in Workers : Blocked(w) ~> (wk[w].st = "idle")
    /\ <>(rpc = "done")

-----------------------------------------------------------------------------
(* Vec3 of extended rationals and kernels/simple/src/util.rs.              *)

V3Zero == <<<<0, 1>>, <<0, 1>>, <<0, 1>>>>
V3One == <<<<1, 1>>, <<1, 1>>, <<1, 1>>>>
V3Add(a, b) == <<FAdd(a[1], b[1]), FAdd(a[2], b[2]), FAdd(a[3], b[3])>>
V3Mul(a, b) == <<FMul(a[1], b[1]), FMul(a[2], b[2]), FMul(a[3], b[3])>>
V3Scale(a, s) == <<FMul(a[1], s), FMul(a[2], s), FMul(a[3], s)>>
V3DivS(a, s) == <<FQuot(a[1], s), FQuot(a[2], s), FQuot(a[3], s)>>
V3Finite(a) == IsFinite(a[1]) /\ IsFinite(a[2]) /\ IsFinite(a[3])

\* Vec3::max_element: x.max(y.max(z))
max_element(v) == FMax(v[1], FMax(v[2], v[3]))

\* mask_nan: if v.max_element().abs() < f32::MAX { v } else { Vec3::ZERO }
mask_nan(v) ==
    IF FLt(FAbs(max_element(v)), FInt(F32_MAX)) THEN v ELSE V3Zero

\* power_heuristic: p1 * p1 / (p1 * p1 + p2 * p2)
power_heuristic(p1, p2) == FQuot(FMul(p1, p1), FAdd(FMul(p1, p1), FMul(p2, p2)))

-----------------------------------------------------------------------------
(* The light pick table: build_light_pick_table (src/light.rs) and its     *)
(* readers pick_light and sample_direct_lighting                           *)
(* (kernels/simple/src/light.rs).  Triangle indices are 0-based.           *)

\* the largest number of triangles and the largest triangle power of the check
MaxLightTris == 3
MaxPower == 5

RECURSIVE SeqSum(_)
SeqSum(s) == IF s = <<>> THEN 0 ELSE Head(s) + SeqSum(Tail(s))

RECURSIVE FSeqSum(_)
FSeqSum(s) == IF s = <<>> THEN <<0, 1>> ELSE FAdd(Head(s), FSeqSum(Tail(s)))

\* bins.sort_by(partial_cmp(..).unwrap_or(Equal)): a stable sort, ascending
\* in probability_a; a NaN compares equal to everything.
RECURSIVE InsertBin(_, _)
InsertBin(sorted, b) ==
    IF sorted = <<>> THEN <<b>>
    ELSE LET last == sorted[Len(sorted)] IN
         IF FLt(b.probability_a, last.probability_a)
         THEN Append(InsertBin(SubSeq(sorted, 1, Len(sorted) - 1), b), last)
         ELSE Append(sorted, b)

RECURSIVE SortBins(_)
SortBins(bs) ==
    IF bs = <<>> THEN <<>>
    ELSE InsertBin(SortBins(SubSeq(bs, 1, Len(bs) - 1)), bs[Len(bs)])

\* The "Robin hood" loop from iteration i on; most is most_probable.  On a
\* most_probable of -1 (the usize has gone below zero) the loop stops and
\* the result says so.
RECURSIVE robin_hood(_, _, _, _)
robin_hood(bins, most, i, average) ==
    IF i >= Len(bins) THEN [bins |-> bins, underflow |-> most < 0]
    ELSE LET needed == FSub(average, bins[i + 1].probability_a) IN
         IF FLe(needed, <<0, 1>>) THEN [bins |-> bins, underflow |-> most < 0]
         ELSE IF most < 0 THEN [bins |-> bins, underflow |-> TRUE]
         ELSE LET b1 == [bins EXCEPT ![i + 1].index_b = bins[most + 1].index_a,
                                     ![i + 1].probability_b = needed]
                  b2 == [b1 EXCEPT ![most + 1].probability_a = FSub(@, needed)]
                  m2 == IF FLe(b2[most + 1].probability_a, average) THEN most - 1 ELSE most
              IN robin_hood(b2, m2, i + 1, average)

SentinelTable ==
    <<[triangle_index_a |-> 0, triangle_area_a |-> <<0, 1>>, triangle_pick_pdf_a |-> <<0, 1>>,
       triangle_index_b |-> 0, triangle_area_b |-> <<0, 1>>, triangle_pick_pdf_b |-> <<0, 1>>,
       ratio |-> <<-1, 1>>]>>

\* emissive.xyz().dot(Vec3::ONE) of the light material of the check, whose
\* emissive is ONE: a triangle's power is this times its area.
EmissiveDotOne == FAdd(FAdd(V3One[1], V3One[2]), V3One[3])

RECURSIVE FilterBins(_)
FilterBins(bs) ==
    IF bs = <<>> THEN <<>>
    ELSE LET rest == FilterBins(Tail(bs)) IN
         \* .filter(|x| x.probability_a != 0.0): a NaN is kept
         IF FEq(Head(bs).probability_a, <<0, 1>>) THEN rest ELSE <<Head(bs)>> \o rest

\* build_light_pick_table, from the mask and the triangle powers
\* (emissive.dot(ONE) * area) in place of vertices and materials.
build_light_pick_table(msk, pw) ==
    LET n == Len(msk)
        triangle_powers == [i \in 1..n |-> IF msk[i] THEN pw[i] ELSE 0]
        triangle_areas == [i \in 1..n |-> FQuot(FInt(triangle_powers[i]), EmissiveDotOne)]
        total_power == SeqSum(triangle_powers)
        total_tris == Cardinality({i \in 1..n : msk[i]})
        triangle_probabilities ==
            [i \in 1..n |-> FQuot(FInt(triangle_powers[i]), FInt(total_power))]
        average_probability == FQuot(FSeqSum(triangle_probabilities), FInt(total_tris))
        all == [i \in 1..n |-> [index_a |-> i - 1, probability_a |-> triangle_probabilities[i],
                                index_b |-> 0, probability_b |-> <<0, 1>>]]
        sorted == SortBins(FilterBins(all))
        rh == robin_hood(sorted, Len(sorted) - 1, 0, average_probability)
    IN IF total_tris = 0 THEN [table |-> SentinelTable, underflow |-> FALSE]
       ELSE [table |-> [k \in 1..Len(rh.bins) |->
                          [triangle_index_a |-> rh.bins[k].index_a,
                           triangle_area_a |-> triangle_areas[rh.bins[k].index_a + 1],
                           triangle_pick_pdf_a |-> triangle_probabilities[rh.bins[k].index_a + 1],
                           triangle_index_b |-> rh.bins[k].index_b,
                           triangle_area_b |-> triangle_areas[rh.bins[k].index_b + 1],
                           triangle_pick_pdf_b |-> triangle_probabilities[rh.bins[k].index_b + 1],
                           ratio |-> FQuot(rh.bins[k].probability_a,
                                           FAdd(rh.bins[k].probability_a, rh.bins[k].probability_b))]],
             underflow |-> rh.underflow]

\* A sentinel test that never finds one; not the code's.
is_sentinel_never(entry) == FALSE
\* LightPick::is_sentinel: self.ratio < 0.0
is_sentinel(entry) == FLt(entry.ratio, <<0, 1>>)

\* (rng.x * table.len() as f32) as usize, for rng.x = x[1] / x[2] in [0, 1)
BinOf(table, x) == (x[1] * Len(table)) \div x[2]

\* pick_light with rng = (x, y): the triangle index, its area and its pick
\* pdf.
pick_light(table, x, y) ==
    LET entry == table[BinOf(table, x) + 1] IN
    IF FLt(y, entry.ratio)
    THEN [index |-> entry.triangle_index_a, area |-> entry.triangle_area_a,
          pick_pdf |-> entry.triangle_pick_pdf_a]
    ELSE [index |-> entry.triangle_index_b, area |-> entry.triangle_area_b,
          pick_pdf |-> entry.triangle_pick_pdf_b]

\* The measure of the rng.y of [0, 1) with rng.y < ratio.
RatioMeasure(ratio) ==
    IF IsNaN(ratio) THEN <<0, 1>> ELSE FMin(FMax(ratio, <<0, 1>>), <<1, 1>>)

\* The probability that pick_light returns triangle k for rng uniform on
\* [0, 1)^2: every bin has measure 1 / table.len().
PickProbability(table, k) ==
    LET share(e) ==
            FAdd(IF e.triangle_index_a = k THEN RatioMeasure(e.ratio) ELSE <<0, 1>>,
                 IF e.triangle_index_b = k THEN FSub(<<1, 1>>, RatioMeasure(e.ratio))
                 ELSE <<0, 1>>)
    IN FQuot(FSeqSum([b \in 1..Len(table) |-> share(table[b])]), FInt(Len(table)))


\* RngState (kernels/simple/src/rng.rs): the state is the position in the
\* pixel's stream; gen_r1 takes one number of it, gen_r2 two, gen_r3 three,
\* and next_state is the state to persist, the position reached.  A draw is
\* written <<who, n>>: who made it and how many numbers it took.
gen_r1 == 1
gen_r2 == 2
gen_r3 == 3
next_state(position) == position

RECURSIVE StreamLen(_)
StreamLen(st) == IF st = <<>> THEN 0 ELSE Head(st)[2] + StreamLen(Tail(st))

\* LightSample::default()
DefaultLightSample ==
    [area |-> <<0, 1>>, pick_pdf |-> <<0, 1>>, emission |-> V3Zero, triangle_idx |-> 0,
     throughput |-> V3Zero, contribution |-> V3Zero]

\* What a call of sample_direct_lighting meets besides its arguments: the four
\* random numbers (x, y for pick_light; two more for pick_triangle_point),
\* the shadow ray's outcome, the two pdfs, the BSDF attenuation and the
\* emission of the picked light.
Draws == {<<0, 1>>, <<3, 4>>}
LightInputs ==
    [x : Draws, y : Draws, hit : BOOLEAN, light_pdf : {<<0, 1>>, <<1, 1>>},
     bsdf_pdf : {<<0, 1>>, <<1, 1>>}, attenuation : {V3One}, emission : {V3One}]

NoLightInput == CHOOSE in \in LightInputs : TRUE

\* sample_direct_lighting: the LightSample, how many random numbers it took
\* from rng_state, how many shadow rays it cast, and what it met.
sample_direct_lighting(table, tp, in) ==
    IF is_sentinel(table[1])
    THEN [sample |-> DefaultLightSample, draws |-> 0, shadow_rays |-> 0, picked |-> FALSE,
          met |-> in, stream |-> <<>>]
    ELSE LET pick == pick_light(table, in.x, in.y)
             weight == power_heuristic(in.light_pdf, in.bsdf_pdf)
             direct ==
                 IF ~in.hit /\ FGt(in.light_pdf, <<0, 1>>) /\ FGt(in.bsdf_pdf, <<0, 1>>)
                 THEN V3DivS(V3DivS(V3Scale(V3Mul(in.attenuation, in.emission), weight),
                                    in.light_pdf), pick.pick_pdf)
                 ELSE V3Zero
         IN [sample |-> [area |-> pick.area, pick_pdf |-> pick.pick_pdf,
                         emission |-> in.emission,
                         triangle_idx |-> pick.index, throughput |-> tp,
                         contribution |-> V3Mul(tp, direct)],
             draws |-> gen_r2 + gen_r2, shadow_rays |-> 1, picked |-> TRUE, met |-> in,
             stream |-> <<<<"pick_light", gen_r2>>, <<"pick_triangle_point", gen_r2>>>>]

NoCall ==
    [sample |-> DefaultLightSample, draws |-> 0, shadow_rays |-> 0, picked |-> FALSE,
     met |-> NoLightInput, stream |-> <<>>]

\* The throughput trace_pixel passes to sample_direct_lighting: that of a
\* fresh path, or the NaN a path carries after a BSDF sample of pdf 0.
V3NaN == <<<<0, 0>>, <<0, 0>>, <<0, 0>>>>
CallThroughputs == {V3One, V3NaN}

\* World::from_path builds the table once the scene is loaded.
BuildLightTable ==
    /\ lpc = "build"
    /\ LET r == build_light_pick_table(mask, powers) IN
        IF r.underflow
        THEN lpc' = "panic" /\ lights' = lights
        ELSE lpc' = "built" /\ lights' = r.table
    /\ UNCHANGED <<mask, powers, ls>>
    /\ UNCHANGED lightFrame

\* One call of sample_direct_lighting with the table.
SampleDirectLighting ==
    /\ lpc = "built"
    /\ \E in \in LightInputs, tp \in CallThroughputs :
            ls' = sample_direct_lighting(lights, tp, in)
    /\ lpc' = "sampled"
    /\ UNCHANGED <<mask, powers, lights>>
    /\ UNCHANGED lightFrame

NextLight == BuildLightTable \/ SampleDirectLighting

\* The masks and powers of up to MaxLightTris triangles: a triangle outside
\* the mask has no power; one inside it has the power 0 when its area is 0.
LightInit ==
    /\ \E n \in 1..MaxLightTris :
        /\ mask \in [1..n -> BOOLEAN]
        /\ powers \in [1..n -> 0..MaxPower]
        /\ \A i \in 1..n : ~mask[i] => powers[i] = 0
    /\ lights = <<>>
    /\ lpc = "build"
    /\ ls = NoCall

LightIdle ==
    /\ mask = <<>>
    /\ powers = <<>>
    /\ lights = <<>>
    /\ lpc = "idle"
    /\ ls = NoCall

NoEmissive == \A i \in 1..Len(mask) : ~mask[i]

\* C9: the table is the single entry with ratio < 0 exactly when no triangle
\* is in the emissive mask, and with that table sample_direct_lighting
\* returns a zero contribution, picks no light, casts no shadow ray and
\* takes no random number.
C9_SentinelIffNoEmissive ==
    lpc \in {"built", "sampled"} =>
        /\ (Len(lights) = 1 /\ FLt(lights[1].ratio, <<0, 1>>)) <=> NoEmissive
        /\ (lpc = "sampled" /\ NoEmissive) =>
            /\ ls.sample.contribution = V3Zero
            /\ ~ls.picked
            /\ ls.shadow_rays = 0
            /\ ls.draws = 0

\* sample_direct_lighting has run on the table of a scene of several
\* triangles, none emissive.
C9_Witness ==
    /\ lpc = "sampled"
    /\ Len(mask) >= 2
    /\ NoEmissive
    /\ ls = NoCall

\* C10: when every emissive triangle has a positive power, each of them is
\* picked with probability power / total_power, the pick pdf stored for it.
C10_AliasTableExact ==
    (lpc = "built" /\ ~NoEmissive /\ \A i \in 1..Len(mask) : mask[i] => powers[i] > 0) =>
        \A i \in 1..Len(mask) : mask[i] =>
            LET p == FNorm(powers[i], SeqSum(powers)) IN
            /\ PickProbability(lights, i - 1) = p
            /\ \A b \in 1..Len(lights) :
                /\ lights[b].triangle_index_a = i - 1 => lights[b].triangle_pick_pdf_a = p
                /\ (lights[b].triangle_index_b = i - 1 /\ FLt(lights[b].ratio, <<1, 1>>))
                       => lights[b].triangle_pick_pdf_b = p

\* C23: sample_direct_lighting returns a contribution of exactly zero
\* whenever the shadow ray reports a hit, or the light pdf is <= 0, or the
\* BSDF pdf for the light direction is <= 0; the LightSample it returns
\* still records the triangle that pick_light chose, with that triangle's
\* area and pick pdf, and the emission of its material.
C23_ZeroContributionWhenBlocked ==
    (lpc = "sampled" /\ ls.picked) =>
        LET in == ls.met
            entry == lights[BinOf(lights, in.x) + 1]
            a == FLt(in.y, entry.ratio)
        IN /\ (in.hit \/ FLe(in.light_pdf, <<0, 1>>) \/ FLe(in.bsdf_pdf, <<0, 1>>))
                => ls.sample.contribution = V3Zero
           /\ ls.sample.triangle_idx = IF a THEN entry.triangle_index_a ELSE entry.triangle_index_b
           /\ ls.sample.area = IF a THEN entry.triangle_area_a ELSE entry.triangle_area_b
           /\ ls.sample.pick_pdf = IF a THEN entry.triangle_pick_pdf_a
                                   ELSE entry.triangle_pick_pdf_b
           /\ ls.sample.emission = in.emission

-----------------------------------------------------------------------------
(* trace_pixel (kernels/simple/src/lib.rs): the bounce loop.  What the     *)
(* scene gives at a bounce (miss or hit, the material, the BSDF sample,    *)
(* the light sample's inputs) is chosen freely from small sets.            *)

\* for bounce in 0..16
LoopBounces == 16
\* if bounce > 8
RouletteBounce == 8
\* throughput * material.emissive.xyz() * 15.0
EmissiveGain == 15

\* skybox::scatter(sun, ori, dir)
SkyValues == {V3One}
\* material.emissive.xyz() of an emissive material
Emissives == {V3One}
\* bsdf.sample(..): the lobe, the spectrum and the pdf.  The specular pdf
\* d_term * n.h / (4 * v.h) is 0 when n.h is, and the specular spectrum is 0
\* when the geometry term is (n.v <= 0: the surface is seen from behind).
BsdfSamples ==
    {[lobe |-> "DiffuseReflection", spectrum |-> V3One, pdf |-> <<1, 1>>],
     [lobe |-> "DiffuseReflection", spectrum |-> <<<<1, 2>>, <<1, 2>>, <<1, 2>>>>, pdf |-> <<1, 1>>],
     [lobe |-> "SpecularReflection", spectrum |-> V3One, pdf |-> <<1, 1>>],
     [lobe |-> "SpecularReflection", spectrum |-> <<<<2, 1>>, <<2, 1>>, <<2, 1>>>>, pdf |-> <<1, 1>>],
     [lobe |-> "SpecularReflection", spectrum |-> V3Zero, pdf |-> <<0, 1>>]}

\* The throughputs of the check lie between 1 / MaxDenominator and
\* MaxNumerator: a sample that dims the path is offered while the throughput
\* is above the one, a sample that brightens it while it is below the other.
MaxDenominator == 2
MaxNumerator == 2
Offered(bs, tp) ==
    \/ bs.spectrum = V3One
    \/ bs.spectrum = V3Zero
    \/ FLt(bs.spectrum[1], <<1, 1>>) /\ tp[1][2] < MaxDenominator
    \/ FGt(bs.spectrum[1], <<1, 1>>) /\ tp[1][2] > 0 /\ tp[1][1] < MaxNumerator * tp[1][2]

\* BSDFSample::default()
DefaultBsdfSample == [lobe |-> "DiffuseReflection", spectrum |-> V3Zero, pdf |-> <<0, 1>>]

\* calculate_bsdf_mis_contribution; same is trace.triangle_index ==
\* light_sample.triangle_idx and light_pdf is calculate_light_pdf(..).
calculate_bsdf_mis_contribution_any_triangle(same, light_pdf, bs, lsm) ==
    IF FGt(light_pdf, <<0, 1>>)
    THEN LET weight == power_heuristic(bs.pdf, light_pdf)
             direct == V3DivS(V3DivS(V3Scale(V3Mul(bs.spectrum, lsm.emission), weight), bs.pdf),
                              lsm.pick_pdf)
         IN V3Mul(lsm.throughput, direct)
    ELSE V3Zero

calculate_bsdf_mis_contribution(same, light_pdf, bs, lsm) ==
    IF ~same THEN V3Zero
    ELSE IF FGt(light_pdf, <<0, 1>>)
    THEN LET weight == power_heuristic(bs.pdf, light_pdf)
             direct == V3DivS(V3DivS(V3Scale(V3Mul(bs.spectrum, lsm.emission), weight), bs.pdf),
                              lsm.pick_pdf)
         IN V3Mul(lsm.throughput, direct)
    ELSE V3Zero

\* The light inputs of trace_pixel's scenes: their table has one entry, so
\* the two numbers of pick_light choose nothing, and the light they pick is
\* one that can be sampled.
TraceLightInputs ==
    {in \in LightInputs : in.x = <<0, 1>> /\ in.y = <<0, 1>> /\ in.light_pdf = <<1, 1>>}

\* The radiance the light samples of the check build up: a light sample whose
\* shadow ray is free is offered while the radiance is below MaxRadiance.
MaxRadiance == 1
Lit(in, rad) == in.hit \/ FLt(rad[1], FInt(MaxRadiance))

\* TracingConfig::soft(): min_bounces 3, max_bounces 4; main.rs overrides
\* the width and the height only.
soft == [min_bounces |-> 3, max_bounces |-> 4]

\* What an iteration did: the branch it took, the face it hit, whether it
\* sampled the BSDF and the lights, and its roulette test (the probability
\* it compared with, whether it broke, and the factor it rescaled by); for
\* an emissive hit after a diffuse bounce, whether the triangle is the one
\* the light sample picked and the light pdf recomputed for it.
NoIteration ==
    [kind |-> "none", backface |-> FALSE, bsdf |-> FALSE, light |-> FALSE,
     roulette |-> FALSE, prob |-> <<0, 1>>, stopped |-> FALSE, scale |-> <<1, 1>>,
     same |-> FALSE, light_pdf |-> <<0, 1>>, stream |-> <<>>, returned |-> 0 - 1]

\* throughput * skybox::scatter(sun, ori, dir)
sky_term_unweighted(tp, sky) == sky

sky_term(tp, sky) == V3Mul(tp, sky)

\* util::mask_nan(throughput * material.emissive.xyz() * 15.0)
direct_emission_unscaled(tp, emissive) == mask_nan(V3Mul(tp, emissive))

direct_emission(tp, emissive) == mask_nan(V3Scale(V3Mul(tp, emissive), FInt(EmissiveGain)))

\* The radiance after a hit on an emissive material, which ends the path.
emissive_hit_two_sided(rad, backface, b, bs, lsm, tp, emissive, same, light_pdf) ==
    IF b = 0 \/ bs.lobe # "DiffuseReflection"
    THEN V3Add(rad, direct_emission(tp, emissive))
    ELSE V3Add(rad, mask_nan(calculate_bsdf_mis_contribution(same, light_pdf, bs, lsm)))

emissive_hit(rad, backface, b, bs, lsm, tp, emissive, same, light_pdf) ==
    IF backface THEN rad
    ELSE IF b = 0 \/ bs.lobe # "DiffuseReflection"
    THEN V3Add(rad, direct_emission(tp, emissive))
    ELSE V3Add(rad, mask_nan(calculate_bsdf_mis_contribution(same, light_pdf, bs, lsm)))

\* for bounce in 0..16: the iteration with this index is the last one.
LastBounceInclusive(b) == b = LoopBounces

LastBounce(b) == b + 1 = LoopBounces

\* if bounce > 8
roulette_applies(b) == b > RouletteBounce

\* (radiance.extend(1.0), rng_state.next_state()): the state trace_pixel
\* returns once the loop has ended, -1 while it has not.
returned_state(done, position) == IF done THEN next_state(position) ELSE 0 - 1

\* An iteration whose ray leaves the scene: the sky term, then break.
BounceMiss ==
    /\ tpc = "loop"
    /\ \E sky \in SkyValues : radiance' = V3Add(radiance, sky_term(throughput, sky))
    /\ tpc' = "done"
    /\ queries' = queries + 1
    /\ did' = [NoIteration EXCEPT !.kind = "miss", !.returned = returned_state(TRUE, draws)]
    /\ UNCHANGED <<bounce, throughput, bsdf_sample, light_sample, draws, config, light_calls>>
    /\ UNCHANGED traceFrame

\* An iteration whose ray hits an emissive material: every branch breaks.
BounceEmissive ==
    /\ tpc = "loop"
    /\ \E emissive \in Emissives, backface \in BOOLEAN :
       \E same \in IF backface \/ bounce = 0 \/ bsdf_sample.lobe # "DiffuseReflection"
                   THEN {FALSE} ELSE BOOLEAN :
       \E light_pdf \in IF backface \/ bounce = 0 \/ bsdf_sample.lobe # "DiffuseReflection"
                        THEN {<<0, 1>>} ELSE {<<0, 1>>, <<1, 1>>} :
        /\ radiance' = emissive_hit(radiance, backface, bounce, bsdf_sample, light_sample,
                                    throughput, emissive, same, light_pdf)
        /\ did' = [NoIteration EXCEPT !.kind = "emissive", !.backface = backface,
                                      !.same = same, !.light_pdf = light_pdf,
                                      !.returned = returned_state(TRUE, draws)]
    /\ tpc' = "done"
    /\ queries' = queries + 1
    /\ UNCHANGED <<bounce, throughput, bsdf_sample, light_sample, draws, config, light_calls>>
    /\ UNCHANGED traceFrame

\* if bsdf_sample.lobe == Lobe::DiffuseReflection: the iteration calls
\* sample_direct_lighting.
samples_light_any_lobe(bs) == TRUE

samples_light(bs) == bs.lobe = "DiffuseReflection"

\* The draws of an iteration that scatters, in their order: bsdf.sample,
\* then those of sample_direct_lighting, then the roulette test's.
bounce_draws_light_first(light_stream, roulette) ==
    light_stream \o <<<<"bsdf.sample", gen_r3>>>>
        \o (IF roulette THEN <<<<"roulette", gen_r1>>>> ELSE <<>>)

bounce_draws(light_stream, roulette) ==
    <<<<"bsdf.sample", gen_r3>>>> \o light_stream
        \o (IF roulette THEN <<<<"roulette", gen_r1>>>> ELSE <<>>)

\* An iteration whose ray hits another material: BSDF sample, light sample
\* for the diffuse lobe, throughput, Russian roulette; then the next bounce,
\* or the end of the loop.
BounceSurface ==
    /\ tpc = "loop"
    /\ \E bs \in {b \in BsdfSamples : Offered(b, throughput)} :
       \E in \in IF samples_light(bs)
                 THEN {i \in TraceLightInputs : Lit(i, radiance)} ELSE {NoLightInput} :
       \E xi \in IF roulette_applies(bounce) THEN Draws ELSE {<<0, 1>>} :
        LET diffuse == samples_light(bs)
            call == IF diffuse THEN sample_direct_lighting(lights, throughput, in) ELSE NoCall
            t1 == V3Mul(throughput, V3DivS(bs.spectrum, bs.pdf))
            roulette == roulette_applies(bounce)
            prob == max_element(t1)
            stop == roulette /\ FGt(xi, prob)
            scale == FQuot(<<1, 1>>, prob)
            stream == bounce_draws(call.stream, roulette)
            done == stop \/ LastBounce(bounce)
        IN
        /\ bsdf_sample' = bs
        /\ light_sample' = IF diffuse THEN call.sample ELSE light_sample
        /\ radiance' = IF diffuse THEN V3Add(radiance, mask_nan(call.sample.contribution))
                       ELSE radiance
        /\ throughput' = IF roulette /\ ~stop THEN V3Scale(t1, scale) ELSE t1
        /\ draws' = draws + StreamLen(stream)
        /\ bounce' = IF stop THEN bounce ELSE bounce + 1
        /\ tpc' = IF done THEN "done" ELSE "loop"
        /\ light_calls' = light_calls + (IF diffuse THEN 1 ELSE 0)
        /\ did' = [kind |-> "surface", backface |-> FALSE, bsdf |-> TRUE, light |-> diffuse,
                    roulette |-> roulette,
                    prob |-> IF roulette THEN prob ELSE <<0, 1>>,
                    stopped |-> stop,
                    scale |-> IF roulette /\ ~stop THEN scale ELSE <<1, 1>>,
                    same |-> FALSE, light_pdf |-> <<0, 1>>, stream |-> stream,
                    returned |-> returned_state(done, draws + StreamLen(stream))]
    /\ queries' = queries + 1
    /\ UNCHANGED config
    /\ UNCHANGED traceFrame

NextTrace == BounceMiss \/ BounceEmissive \/ BounceSurface

\* The loop starts its next iteration: one more intersect_nearest call.
Iteration == tpc = "loop" /\ queries' = queries + 1

\* trace_pixel up to the loop: RngState::new, gen_r2 for the jitter,
\* throughput ONE, radiance ZERO; the scene has no light or one.
TraceInit ==
    /\ mask \in {<<FALSE>>, <<TRUE>>}
    /\ powers = IF mask[1] THEN <<1>> ELSE <<0>>
    /\ lights = build_light_pick_table(mask, powers).table
    /\ lpc = "built"
    /\ ls = NoCall
    /\ bounce = 0
    /\ throughput = V3One
    /\ radiance = V3Zero
    /\ bsdf_sample = DefaultBsdfSample
    /\ light_sample = DefaultLightSample
    /\ draws = gen_r2
    /\ tpc = "loop"
    /\ config = soft
    /\ queries = 0
    /\ light_calls = 0
    /\ did = [NoIteration EXCEPT !.stream = <<<<"jitter", gen_r2>>>>]

TraceIdle ==
    /\ bounce = 0
    /\ throughput = V3One
    /\ radiance = V3Zero
    /\ bsdf_sample = DefaultBsdfSample
    /\ light_sample = DefaultLightSample
    /\ draws = 0
    /\ tpc = "idle"
    /\ config = soft
    /\ queries = 0
    /\ light_calls = 0
    /\ did = NoIteration

\* C8: the radiance trace_pixel returns is finite in every channel.
C8_RadianceFinite == tpc = "done" => V3Finite(radiance)

\* C11: a hit on the back face of an emissive triangle, at any bounce, ends
\* the path at that bounce and leaves radiance as it was.
C11_BackfaceEmissiveAddsNothing ==
    [][(tpc = "loop" /\ did'.kind = "emissive" /\ did'.backface)
        => (radiance' = radiance /\ tpc' = "done" /\ bounce' = bounce)]_vars

\* A back-face hit after a specular bounce, where a front-face hit would
\* have added the emission.
C11_Witness ==
    /\ tpc = "done" /\ did.kind = "emissive" /\ did.backface
    /\ bounce > 0 /\ bsdf_sample.lobe = "SpecularReflection" /\ throughput = V3One

\* C12: trace_pixel terminates: the loop runs for bounce indices 0 to 15,
\* makes at most 16 nearest-hit queries and at most 16 direct-light samples,
\* and reaches its return.
C12_TerminatesWithin16 ==
    /\ [](/\ queries <= LoopBounces
          /\ light_calls <= LoopBounces
          /\ (tpc = "loop" => bounce < LoopBounces))
    /\ <>(tpc = "done")

\* A path that scattered diffusely at every one of the 16 bounces.
C12_Witness == tpc = "done" /\ queries = LoopBounces /\ light_calls = LoopBounces

\* C13: the loop follows the tracing configuration: it makes at most
\* config.max_bounces iterations, and an iteration that scatters makes the
\* roulette test exactly when its index has reached the configured start
\* bounce (min_bounces).
C13_LoopFollowsConfig ==
    /\ queries <= config.max_bounces
    /\ did.kind = "surface" => (did.roulette <=> queries - 1 >= config.min_bounces)

\* C14: Russian roulette starts at bounce 8: an iteration that scattered
\* made the roulette test if and only if its bounce index is 8 or more.
C14_RouletteFromBounce8 ==
    did.kind = "surface" => (did.roulette <=> queries - 1 >= RouletteBounce)

\* rng_state.gen_r1() > prob breaks: the probability that a number uniform
\* in [0, 1) does not exceed prob, which is 1 when prob is NaN.
continue_probability(prob) ==
    IF IsNaN(prob) THEN <<1, 1>>
    ELSE IF FGe(prob, <<1, 1>>) THEN <<1, 1>>
    ELSE IF FLe(prob, <<0, 1>>) THEN <<0, 1>>
    ELSE prob

\* C15: Russian roulette is unbiased for every throughput: the probability
\* of continuing times the factor the throughput is rescaled by on
\* continuation is 1.
C15_RouletteUnbiased ==
    (did.roulette /\ ~did.stopped)
        => FEq(FMul(continue_probability(did.prob), did.scale), <<1, 1>>)

\* C19: a miss adds throughput x skybox to radiance once and ends the path:
\* no BSDF sample, no light sample, no random number drawn, no later bounce.
C19_MissAddsSkyAndEnds ==
    [][/\ (tpc = "loop" /\ did'.kind = "miss")
            => /\ \E sky \in SkyValues : radiance' = V3Add(radiance, V3Mul(throughput, sky))
               /\ tpc' = "done"
               /\ ~did'.bsdf /\ ~did'.light /\ ~did'.roulette
               /\ UNCHANGED <<bsdf_sample, light_sample, light_calls, draws, bounce, throughput>>
       /\ tpc = "done" => UNCHANGED <<queries, radiance>>]_vars

\* A miss after a bounce that dimmed the path.
C19_Witness ==
    /\ tpc = "done" /\ did.kind = "miss" /\ bounce > 0
    /\ throughput = <<<<1, 2>>, <<1, 2>>, <<1, 2>>>> /\ V3Finite(radiance)

\* C20 as stated: a front-face hit on an emissive triangle at bounce 0, or
\* after a bounce that was not a diffuse reflection, adds throughput x
\* emissive x 15 to radiance and ends the path without sampling a BSDF.
C20_EmissiveAddsEmission ==
    [][(/\ tpc = "loop" /\ did'.kind = "emissive" /\ ~did'.backface
        /\ (bounce = 0 \/ bsdf_sample.lobe # "DiffuseReflection"))
            => /\ \E e \in Emissives :
                    radiance' = V3Add(radiance, V3Scale(V3Mul(throughput, e), FInt(EmissiveGain)))
               /\ tpc' = "done"
               /\ ~did'.bsdf /\ ~did'.light /\ ~did'.roulette
               /\ UNCHANGED <<bsdf_sample, light_sample, light_calls, draws, bounce, throughput>>]_vars

\* C20: such a hit adds throughput x emissive x 15 when the largest channel
\* of that product is below f32::MAX in absolute value (so neither NaN nor
\* infinite), and nothing otherwise; it ends the path without sampling a BSDF.
C20_EmissiveAddsMaskedEmission ==
    [][(/\ tpc = "loop" /\ did'.kind = "emissive" /\ ~did'.backface
        /\ (bounce = 0 \/ bsdf_sample.lobe # "DiffuseReflection"))
            => /\ \E e \in Emissives :
                    LET term == V3Scale(V3Mul(throughput, e), FInt(EmissiveGain)) IN
                    radiance' = IF FLt(FAbs(max_element(term)), FInt(F32_MAX))
                                THEN V3Add(radiance, term) ELSE radiance
               /\ tpc' = "done"
               /\ ~did'.bsdf /\ ~did'.light /\ ~did'.roulette
               /\ UNCHANGED <<bsdf_sample, light_sample, light_calls, draws, bounce, throughput>>]_vars

\* A front-face emissive hit after a specular bounce that left a dimmed,
\* finite throughput.
C20_Witness ==
    /\ tpc = "done" /\ did.kind = "emissive" /\ ~did.backface
    /\ bounce > 0 /\ bsdf_sample.lobe = "SpecularReflection"
    /\ throughput = <<<<1, 2>>, <<1, 2>>, <<1, 2>>>> /\ radiance # V3Zero

\* C21: a front-face hit on an emissive triangle right after a diffuse
\* reflection ends the path; what it adds to radiance is either nothing or
\* the BSDF-side MIS term, the latter only when the triangle hit is the one
\* the light sample of the previous vertex picked; when the triangle differs
\* or the recomputed light pdf is <= 0 it adds exactly zero.
C21_MisTermOnlyOnSampledLight ==
    [][(/\ tpc = "loop" /\ did'.kind = "emissive" /\ ~did'.backface
        /\ bounce > 0 /\ bsdf_sample.lobe = "DiffuseReflection")
            => LET weight == power_heuristic(bsdf_sample.pdf, did'.light_pdf)
                   term == V3Mul(light_sample.throughput,
                                 V3DivS(V3DivS(V3Scale(V3Mul(bsdf_sample.spectrum,
                                                             light_sample.emission), weight),
                                               bsdf_sample.pdf),
                                        light_sample.pick_pdf))
               IN /\ tpc' = "done"
                  /\ radiance' # radiance
                        => (did'.same /\ radiance' = V3Add(radiance, term))
                  /\ (~did'.same \/ FLe(did'.light_pdf, <<0, 1>>)) => radiance' = radiance
                  /\ UNCHANGED <<bsdf_sample, light_sample, light_calls, draws, bounce>>]_vars

\* The second ray of a path struck the light its first vertex had sampled
\* behind an occluder: all the radiance of the path is the MIS term.
C21_Witness ==
    /\ tpc = "done" /\ did.kind = "emissive" /\ ~did.backface /\ did.same
    /\ did.light_pdf = <<1, 1>> /\ queries = 2 /\ bsdf_sample.lobe = "DiffuseReflection"
    /\ light_sample.contribution = V3Zero /\ radiance # V3Zero

C24_StreamOrder ==
    /\ [](queries = 0 => (did.stream = <<<<"jitter", 2>>>> /\ draws = 2))
    /\ [][tpc = "loop" =>
            /\ did'.kind \in {"miss", "emissive"} => (did'.stream = <<>> /\ draws' = draws)
            /\ did'.kind = "surface" =>
                /\ did'.stream =
                      <<<<"bsdf.sample", 3>>>>
                      \o (IF bsdf_sample'.lobe = "DiffuseReflection" /\ ~is_sentinel(lights[1])
                          THEN <<<<"pick_light", 2>>, <<"pick_triangle_point", 2>>>> ELSE <<>>)
                      \o (IF did'.roulette THEN <<<<"roulette", 1>>>> ELSE <<>>)
                /\ draws' = draws + 3
                               + (IF bsdf_sample'.lobe = "DiffuseReflection"
                                     /\ ~is_sentinel(lights[1]) THEN 4 ELSE 0)
                               + (IF did'.roulette THEN 1 ELSE 0)
            /\ tpc' = "done" => did'.returned = draws'
            /\ tpc' = "loop" => did'.returned = 0 - 1]_vars

\* A path in a scene with a light whose tenth bounce scattered diffusely and
\* passed the roulette test: all four kinds of draw in one iteration.
C24_Witness ==
    /\ did.kind = "surface" /\ did.light /\ did.roulette /\ ~did.stopped
    /\ ~is_sentinel(lights[1]) /\ Len(did.stream) = 4 /\ draws > 2 + 8 * 3

-----------------------------------------------------------------------------
(* The image of render (src/rendering.rs): the state in which the receive  *)
(* loop has ended, for any contributions the tracer returned, and the step *)
(* that turns the accumulators into pixels.                                *)

\* What an accumulator can hold once every ray is delivered.
ColorSums ==
    {<<-1, 1>>, <<0, 1>>, <<1, 510>>, <<1, 4>>, <<1, 2>>, <<1, 1>>, <<3, 2>>, <<2, 1>>,
     <<3, 1>>, <<0, 0>>, <<1, 0>>, <<-1, 0>>}

NextImage == JoinAndImage

ImageInit ==
    /\ camera \in Cameras
    /\ num_samples \in 0..MaxSamples
    /\ pending = {}
    /\ wk = [w \in Workers |-> [st |-> "idle", ray |-> -1, rng |-> 0, item |-> NoItem]]
    /\ chan = <<>>
    /\ colors \in [1..num_pixels -> ColorSums]
    /\ delivered = [r \in 1..num_rays |-> <<PixelOf(r - 1, num_pixels)>>]
    /\ rpc = "join"
    /\ img = <<>>

\* The mean of a pixel: colors[..] / F::from_usize(num_samples)
mean_color(p) == FQuot(colors[p], FInt(num_samples))

\* v.clamp(0, 1) of a value that is not NaN
Clamp01(v) == IF FLe(v, <<0, 1>>) THEN <<0, 1>> ELSE IF FGe(v, <<1, 1>>) THEN <<1, 1>> ELSE v

\* C17: each pixel of the image is round(clamp(mean, 0, 1) * 255): it lies
\* in 0..255, is 0 for a mean <= 0 and 255 for a mean >= 1, is within 1/2
\* of clamp(mean) * 255, and is monotone in the mean.
C17_ToneMapping ==
    (rpc = "done" /\ img # <<>>) =>
        \A p \in 1..num_pixels :
            LET m == mean_color(p)
                c == Clamp01(m)
            IN /\ img[p] \in 0..255
               /\ FLe(m, <<0, 1>>) => img[p] = 0
               /\ FGe(m, <<1, 1>>) => img[p] = 255
               /\ 2 * Abs(255 * c[1] - img[p] * c[2]) <= c[2]
               /\ \A q \in 1..num_pixels : FLe(m, mean_color(q)) => img[p] <= img[q]

\* An image of two pixels, one with a mean above 1 and one whose mean is
\* rounded up to a value strictly inside 0..255.
C17_Witness ==
    /\ rpc = "done" /\ num_pixels = 2 /\ num_samples = 2 /\ img # <<>>
    /\ FGt(mean_color(1), <<1, 1>>) /\ img[1] = 255
    /\ mean_color(2) = <<1, 4>> /\ img[2] = 64

-----------------------------------------------------------------------------
(* Materials: get_pbr_bsdf (kernels/simple/src/bsdf.rs) reads the roughness *)
(* and the metallic value of a material, from its constant or from the     *)
(* atlas, and clamps them.                                                 *)

\* util::EPS
EPS == <<1, 1000>>

\* What a material file can hold as $mat.roughnessFactor or
\* $mat.metallicFactor (World::from_path stores the number as it is read),
\* and what a texel of the atlas can hold.
MaterialValues ==
    {<<-1, 1>>, <<0, 1>>, <<1, 2000>>, <<1, 2>>, <<999, 1000>>, <<1, 1>>, <<2, 1>>,
     <<0, 0>>, <<1, 0>>}
TexelValues == {<<0, 1>>, <<1, 2000>>, <<1, 2>>, <<1, 1>>}

NoPbr == [roughness |-> <<0, 1>>, metallic |-> <<0, 1>>]

\* get_pbr_bsdf; texel_r and texel_m are what atlas.sample_by_lod returns
\* for the roughness and the metallic rectangle.
get_pbr_bsdf(mat, texel_r, texel_m) ==
    LET roughness == IF mat.has_roughness_texture THEN texel_r ELSE mat.roughness
        metallic == IF mat.has_metallic_texture THEN texel_m ELSE mat.metallic
    IN [roughness |-> FMax(roughness, EPS),
        metallic |-> FMin(metallic, FSub(<<1, 1>>, EPS))]

\* trace_pixel fetches the BSDF of the material it hit.
GetPbrBsdf ==
    /\ mpc = "get"
    /\ \E texel_r \in TexelValues, texel_m \in TexelValues :
        pbr' = get_pbr_bsdf(material, texel_r, texel_m)
    /\ mpc' = "got"
    /\ UNCHANGED material
    /\ UNCHANGED matFrame

NextMaterial == GetPbrBsdf

MaterialInit ==
    /\ material \in [roughness : MaterialValues, metallic : MaterialValues,
                     has_roughness_texture : BOOLEAN, has_metallic_texture : BOOLEAN]
    /\ pbr = NoPbr
    /\ mpc = "get"

MaterialIdle ==
    /\ material = [roughness |-> <<0, 1>>, metallic |-> <<0, 1>>,
                   has_roughness_texture |-> FALSE, has_metallic_texture |-> FALSE]
    /\ pbr = NoPbr
    /\ mpc = "idle"

\* C16: the PBR parameters that get_pbr_bsdf returns satisfy
\* EPS <= roughness <= 1 and 0 <= metallic <= 1 - EPS.
C16_PbrParametersClamped ==
    mpc = "got" =>
        /\ FLe(EPS, pbr.roughness) /\ FLe(pbr.roughness, <<1, 1>>)
        /\ FLe(<<0, 1>>, pbr.metallic) /\ FLe(pbr.metallic, FSub(<<1, 1>>, EPS))

-----------------------------------------------------------------------------
(* The packed BVHNode (shared/src/lib.rs): any sequence of setter calls on *)
(* one node, and calls of right_node_index.                                *)

\* BVHNode::default()
DefaultNode ==
    [aabb_min |-> <<F32_MAX, F32_MAX, F32_MAX, 0>>,
     aabb_max |-> <<0 - F32_MAX, 0 - F32_MAX, 0 - F32_MAX, 0>>]

\* The arguments of the setter calls.
CountValues == {0, 1, 2}
IndexValues == {0, 1, U32_MAX}
Corners == {<<0, 0, 0>>, <<1, 2, 3>>}

NoGot == [called |-> FALSE, left |-> 0, panicked |-> FALSE, value |-> 0]

SetTriangleCount ==
    /\ ~got.panicked
    /\ \E v \in CountValues :
        /\ nd' = set_triangle_count(nd, v)
        /\ wrote' = [wrote EXCEPT !.triangle_count = v]
    /\ UNCHANGED got
    /\ UNCHANGED nodeFrame

SetLeftNodeIndex ==
    /\ ~got.panicked
    /\ \E v \in IndexValues :
        /\ nd' = set_left_node_index(nd, v)
        /\ wrote' = [wrote EXCEPT !.index = v]
    /\ UNCHANGED got
    /\ UNCHANGED nodeFrame

SetFirstTriangleIndex ==
    /\ ~got.panicked
    /\ \E v \in IndexValues :
        /\ nd' = set_first_triangle_index(nd, v)
        /\ wrote' = [wrote EXCEPT !.index = v]
    /\ UNCHANGED got
    /\ UNCHANGED nodeFrame

SetAabbMin ==
    /\ ~got.panicked
    /\ \E v \in Corners :
        /\ nd' = set_aabb_min(nd, v)
        /\ wrote' = [wrote EXCEPT !.aabb_min = v]
    /\ UNCHANGED got
    /\ UNCHANGED nodeFrame

SetAabbMax ==
    /\ ~got.panicked
    /\ \E v \in Corners :
        /\ nd' = set_aabb_max(nd, v)
        /\ wrote' = [wrote EXCEPT !.aabb_max = v]
    /\ UNCHANGED got
    /\ UNCHANGED nodeFrame

\* right_node_index: self.left_node_index() + 1 on u32.  When the sum does
\* not fit, a build with overflow checks panics and one without wraps.
RightNodeIndex ==
    /\ ~got.panicked
    /\ \E overflow_checks \in BOOLEAN :
        got' = IF overflow_checks /\ left_node_index(nd) + 1 > U32_MAX
               THEN [called |-> TRUE, left |-> left_node_index(nd), panicked |-> TRUE,
                     value |-> 0]
               ELSE [called |-> TRUE, left |-> left_node_index(nd), panicked |-> FALSE,
                     value |-> right_node_index(nd)]
    /\ UNCHANGED <<nd, wrote>>
    /\ UNCHANGED nodeFrame

NextNode ==
    \/ SetTriangleCount
    \/ SetLeftNodeIndex
    \/ SetFirstTriangleIndex
    \/ SetAabbMin
    \/ SetAabbMax
    \/ RightNodeIndex

NodeInit ==
    /\ nd = DefaultNode
    /\ wrote = [triangle_count |-> 0, index |-> 0,
                aabb_min |-> <<F32_MAX, F32_MAX, F32_MAX>>,
                aabb_max |-> <<0 - F32_MAX, 0 - F32_MAX, 0 - F32_MAX>>]
    /\ got = NoGot

NodeIdle == NodeInit

\* What the getters return is what was last written, field by field.
GettersReturnLastWritten ==
    /\ triangle_count(nd) = wrote.triangle_count
    /\ left_node_index(nd) = wrote.index
    /\ first_triangle_index(nd) = wrote.index
    /\ aabb_min_xyz(nd) = wrote.aabb_min
    /\ aabb_max_xyz(nd) = wrote.aabb_max
    /\ is_leaf(nd) <=> wrote.triangle_count > 0

\* C25 as stated: under any sequence of setter calls every getter returns the
\* value last written to its field (so no setter disturbs another field),
\* is_leaf holds exactly when triangle_count > 0, and right_node_index
\* always equals left_node_index + 1.
C25_NodeFieldsIndependent ==
    /\ GettersReturnLastWritten
    /\ got.called => (~got.panicked /\ got.value = got.left + 1)

\* C25: the same, with right_node_index equal to left_node_index + 1
\* whenever left_node_index is below u32::MAX.
C25_NodeFieldsIndependentBelowMax ==
    /\ GettersReturnLastWritten
    /\ (got.called /\ got.left < U32_MAX) => (~got.panicked /\ got.value = got.left + 1)

\* Every field of the node has been written, the count last, and
\* right_node_index has been called on it.
C25_Witness ==
    /\ got.called /\ got.left = 1 /\ got.value = 2
    /\ wrote.triangle_count = 2 /\ wrote.index = 1
    /\ wrote.aabb_min = <<1, 2, 3>> /\ wrote.aabb_max = <<1, 2, 3>>

-----------------------------------------------------------------------------
(* World::from_path (src/scene.rs) from the BVH build on, and one light    *)
(* sample on the finished world.  A triangle is [id, area, m]: m is its    *)
(* material index, material 1 is emissive (ONE) and material 0 is not.     *)

\* the largest number of triangles of a world of the check
MaxWorldTris == 3

\* The index buffer that compute_emissive_mask and build_light_pick_table
\* receive: &indices, after BVHBuilder::build has reordered it.
lights_input_as_loaded(original, reordered) == original

lights_input(original, reordered) == reordered

\* compute_emissive_mask: material_datas[indices[i].w].emissive.xyz() != ZERO
compute_emissive_mask(is) == [i \in 1..Len(is) |-> is[i].m = 1]

\* triangle_powers of build_light_pick_table: emissive.dot(ONE) * area
triangle_powers_of(is) ==
    [i \in 1..Len(is) |-> IF is[i].m = 1 THEN EmissiveDotOne[1] * is[i].area ELSE 0]

NoFetch == [light_index |-> 0, area |-> <<0, 1>>, pick_pdf |-> <<0, 1>>,
            triangle |-> [id |-> 0, area |-> 0, m |-> 0]]

\* BVHBuilder::new(&vertices, &mut indices).sah_samples(128).build(): the
\* triangles are permuted in the index buffer.
WorldBuildBvh ==
    /\ wpc = "loaded"
    /\ \E p \in {q \in [1..Len(loaded) -> 1..Len(loaded)] :
                    \A i, j \in 1..Len(loaded) : q[i] = q[j] => i = j} :
        index_buffer' = [i \in 1..Len(loaded) |-> loaded[p[i]]]
    /\ wpc' = "bvh"
    /\ UNCHANGED <<loaded, emissive_mask, light_pick_buffer, fetched>>
    /\ UNCHANGED worldFrame

\* The emissive mask and the light pick table; the World takes the index
\* buffer as it is.
WorldBuildLights ==
    /\ wpc = "bvh"
    /\ LET is == lights_input(loaded, index_buffer)
           r == build_light_pick_table(compute_emissive_mask(is), triangle_powers_of(is))
       IN /\ emissive_mask' = compute_emissive_mask(is)
          /\ light_pick_buffer' = r.table
          /\ wpc' = IF r.underflow THEN "panic" ELSE "built"
    /\ UNCHANGED <<loaded, index_buffer, fetched>>
    /\ UNCHANGED worldFrame

\* sample_direct_lighting on the world: pick_light, then the triangle
\* indices[light_index] it samples a point on.
WorldSample ==
    /\ wpc \in {"built", "sampled"}
    /\ ~is_sentinel(light_pick_buffer[1])
    /\ \E x \in Draws, y \in Draws :
        LET pick == pick_light(light_pick_buffer, x, y) IN
        fetched' = [light_index |-> pick.index, area |-> pick.area,
                    pick_pdf |-> pick.pick_pdf, triangle |-> index_buffer[pick.index + 1]]
    /\ wpc' = "sampled"
    /\ UNCHANGED <<loaded, index_buffer, emissive_mask, light_pick_buffer>>
    /\ UNCHANGED worldFrame

NextWorld == WorldBuildBvh \/ WorldBuildLights \/ WorldSample

\* The meshes are loaded: up to MaxWorldTris triangles of different areas,
\* each with one of the two materials.
WorldInit ==
    /\ \E n \in 1..MaxWorldTris :
       \E ms \in [1..n -> {0, 1}] :
        loaded = [i \in 1..n |-> [id |-> i, area |-> i, m |-> ms[i]]]
    /\ index_buffer = loaded
    /\ emissive_mask = <<>>
    /\ light_pick_buffer = <<>>
    /\ wpc = "loaded"
    /\ fetched = NoFetch

WorldIdle ==
    /\ loaded = <<>>
    /\ index_buffer = <<>>
    /\ emissive_mask = <<>>
    /\ light_pick_buffer = <<>>
    /\ wpc = "idle"
    /\ fetched = NoFetch

\* The index the BVH traversal reports for a hit on triangle t: its position
\* in the index buffer (first_triangle_index + i), 0-based.
ReportedIndices(t) == {q \in 0..(Len(index_buffer) - 1) : index_buffer[q + 1] = t}

\* C26: the triangle indices of the light pick table are positions in the
\* index buffer of the finished world: the mask and the table are computed
\* from the buffer the BVH build has reordered and the buffer does not
\* change afterwards, so the triangle a light sample fetches is emissive,
\* has the area and the pick pdf the table stores for it, and is the
\* triangle for which the BVH traversal reports that same index.
C26_LightIndicesFollowReorderedBuffer ==
    /\ wpc \in {"built", "sampled"} =>
        /\ Len(emissive_mask) = Len(index_buffer)
        /\ \A i \in 1..Len(index_buffer) : emissive_mask[i] <=> index_buffer[i].m = 1
        /\ \A i \in 1..Len(index_buffer) : \E j \in 1..Len(loaded) : index_buffer[i] = loaded[j]
    /\ wpc = "sampled" =>
        LET t == fetched.triangle
            total == SeqSum(triangle_powers_of(index_buffer))
        IN /\ t.m = 1
           /\ fetched.area = FInt(t.area)
           /\ fetched.pick_pdf = FNorm(EmissiveDotOne[1] * t.area, total)
           /\ ReportedIndices(t) = {fetched.light_index}

\* A light sample in a world whose BVH build moved the emissive triangle it
\* fetches to another position of the index buffer.
C26_Witness ==
    /\ wpc = "sampled"
    /\ index_buffer # loaded
    /\ loaded[fetched.light_index + 1] # fetched.triangle
    /\ loaded[fetched.light_index + 1].m = 0

-----------------------------------------------------------------------------
(* Progressive accumulation: the render loop of main (src/main.rs), which  *)
(* calls trace_gpu (src/compute.rs), whose dispatch runs main_cs           *)
(* (kernels/simple/src/lib.rs) once per invocation.  One colour channel is *)
(* kept: the code treats the three alike.                                  *)

\* the largest width and height of a frame of the check, and the most calls
MaxFrameW == 2
MaxFrameH == 2
MaxCalls == 2

\* What trace_pixel returns for a pixel, in one channel.
SampleValues == {<<0, 1>>, <<1, 1>>}

\* The invocations of the dispatch whose index lies in the buffers, and
\* those of them that write the slot of pixel i (0-based).
Relevant(cfg) ==
    {id \in DispatchIds(cfg.width, cfg.height) :
        PixelIndex(id, cfg.width) < cfg.width * cfg.height}
Writers(cfg, i) == {id \in Relevant(cfg) : PixelIndex(id, cfg.width) = i}

\* The invocation that stands for pixel i: x = i mod width, y = i div width.
Owner(cfg, i) == <<i % cfg.width, i \div cfg.width>>

RECURSIVE SumOver(_, _)
SumOver(px, ids) ==
    IF ids = {} THEN <<0, 1>>
    ELSE LET id == CHOOSE k \in ids : TRUE IN FAdd(px[id], SumOver(px, ids \ {id}))

\* Tracing::new: a zeroed frame and samples = 0
ZeroFrame(cfg) == [i \in 1..(cfg.width * cfg.height) |-> <<0, 1>>]

NoTraceCall == [n |-> 0, reset |-> FALSE, prev_frame |-> <<>>, prev_samples |-> 0, new |-> <<>>]

\* trace_gpu: the output buffer starts as frame * samples, every invocation
\* of the dispatch adds its pixel to output[index], and the frame becomes
\* output / (samples + 1).  px is what each invocation traced.  Invocations
\* that share an index add to one slot without synchronisation: kept are
\* those whose addition is not overwritten by another's.
trace_gpu(cfg, fr, smp, px, kept) ==
    LET raw_buf == [i \in 1..Len(fr) |-> FMul(fr[i], FInt(smp))]
        output == [i \in 1..Len(fr) |->
                      FAdd(raw_buf[i], SumOver(px, Writers(cfg, i - 1) \cap kept))]
    IN [frame |-> [i \in 1..Len(fr) |-> FQuot(output[i], FAdd(FInt(smp), <<1, 1>>))],
        samples |-> smp + 1]

\* One iteration of the render loop: the reset when the camera has moved,
\* then trace_gpu.
RenderLoop ==
    /\ gpu_call.n < MaxCalls
    /\ \E moved \in BOOLEAN, px \in [Relevant(acfg) -> SampleValues] :
       \E kept \in {k \in SUBSET Relevant(acfg) :
                       \A i \in 0..(Len(frame) - 1) : Writers(acfg, i) \cap k # {}} :
        LET s0 == IF moved THEN 0 ELSE samples
            f0 == IF moved THEN ZeroFrame(acfg) ELSE frame
            r == trace_gpu(acfg, f0, s0, px, kept)
        IN /\ frame' = r.frame
           /\ samples' = r.samples
           /\ gpu_call' = [n |-> gpu_call.n + 1, reset |-> moved, prev_frame |-> f0,
                       prev_samples |-> s0,
                       new |-> [i \in 1..Len(frame) |-> px[Owner(acfg, i - 1)]]]
    /\ UNCHANGED acfg
    /\ UNCHANGED accumFrame

NextAccum == RenderLoop

AccumInit ==
    /\ acfg \in [width : 1..MaxFrameW, height : 1..MaxFrameH]
    /\ frame = ZeroFrame(acfg)
    /\ samples = 0
    /\ gpu_call = NoTraceCall

AccumIdle ==
    /\ acfg = [width |-> 0, height |-> 0]
    /\ frame = <<>>
    /\ samples = 0
    /\ gpu_call = NoTraceCall

\* C28: every trace_gpu call adds 1 to state.samples and leaves, for every
\* pixel, (previous frame x previous samples + new sample) /
\* (previous samples + 1) in the frame, the new sample being the one traced
\* for that pixel; after a reset the frame is the new sample alone.
C28_FrameIsRunningMean ==
    gpu_call.n > 0 =>
        /\ samples = gpu_call.prev_samples + 1
        /\ gpu_call.reset => (gpu_call.prev_samples = 0 /\ frame = gpu_call.new)
        /\ \A i \in 1..Len(frame) :
            frame[i] = FQuot(FAdd(FMul(gpu_call.prev_frame[i], FInt(gpu_call.prev_samples)),
                                  gpu_call.new[i]),
                             FInt(gpu_call.prev_samples + 1))

-----------------------------------------------------------------------------
(* block_on and its Signal (src/block.rs).  The thread of block_on polls   *)
(* the future and calls signal.wait() when it is pending; any thread may   *)
(* call notify through the waker, any number of times.  Each section that  *)
(* runs under the mutex of Signal.state is one step; Condvar::wait gives   *)
(* the mutex up while the waiter sleeps and takes it again when it wakes,  *)
(* which it may also do with no notify_one (a spurious wake-up).           *)

\* the most calls of wait and of notify of the check
MaxWaits == 3
MaxNotifies == 4

\* A notify that forgets a wake-up nobody waits for yet; not the code's.
notify_dropping(s) ==
    IF s = "Waiting" THEN [state |-> "Empty", notify_one |-> TRUE]
    ELSE [state |-> s, notify_one |-> FALSE]

\* Signal::notify under the lock: the new state, and whether notify_one is
\* called.
notify(s) ==
    IF s = "Empty" THEN [state |-> "Notified", notify_one |-> FALSE]
    ELSE IF s = "Waiting" THEN [state |-> "Empty", notify_one |-> TRUE]
    ELSE [state |-> s, notify_one |-> FALSE]

\* Signal::wait under the lock, up to the first cond.wait: the new state and
\* what the thread does next.
wait_match(s) ==
    IF s = "Notified" THEN [state |-> "Empty", then |-> "return"]
    ELSE IF s = "Waiting" THEN [state |-> s, then |-> "unreachable"]
    ELSE [state |-> "Waiting", then |-> "sleep"]

NoWait == [entered |-> "none", owed |-> 0, blocked |-> FALSE, returned |-> FALSE,
           left |-> "none", got |-> 0]

\* fut.as_mut().poll(&mut context): Ready ends block_on, Pending leads to
\* signal.wait().
Poll ==
    /\ waiter = "poll"
    /\ \E ready \in BOOLEAN :
        IF ready THEN waiter' = "done"
        ELSE wait_n < MaxWaits /\ waiter' = "pending"
    /\ UNCHANGED <<sig, cv_woken, owed, wait_n, notify_n, wait_log>>
    /\ UNCHANGED signalFrame

\* signal.wait() from the lock to its return, its panic or its cond.wait.
WaitEnter ==
    /\ waiter = "pending"
    /\ LET r == wait_match(sig) IN
        /\ sig' = r.state
        /\ waiter' = IF r.then = "return" THEN "poll"
                     ELSE IF r.then = "sleep" THEN "blocked" ELSE "panic"
        /\ owed' = IF r.then = "return" THEN 0 ELSE owed
        /\ wait_log' = [entered |-> sig, owed |-> owed, blocked |-> r.then = "sleep",
                        returned |-> r.then = "return",
                        left |-> IF r.then = "return" THEN r.state ELSE "none",
                        got |-> IF r.then = "return" THEN owed ELSE 0]
    /\ cv_woken' = FALSE
    /\ wait_n' = wait_n + 1
    /\ UNCHANGED notify_n
    /\ UNCHANGED signalFrame

\* The sleeping waiter is woken by notify_one.
CondWake ==
    /\ waiter = "blocked"
    /\ cv_woken
    /\ waiter' = "woken"
    /\ cv_woken' = FALSE
    /\ UNCHANGED <<sig, owed, wait_n, notify_n, wait_log>>
    /\ UNCHANGED signalFrame

\* The sleeping waiter wakes with no notify_one.
SpuriousWake ==
    /\ waiter = "blocked"
    /\ ~cv_woken
    /\ waiter' = "woken"
    /\ UNCHANGED <<sig, cv_woken, owed, wait_n, notify_n, wait_log>>
    /\ UNCHANGED signalFrame

\* cond.wait returns with the lock: while let State::Waiting = *state sleeps
\* again or ends the loop, and wait returns.
WaitRecheck ==
    /\ waiter = "woken"
    /\ IF sig = "Waiting"
       THEN waiter' = "blocked" /\ UNCHANGED <<owed, wait_log>>
       ELSE /\ waiter' = "poll"
            /\ owed' = 0
            /\ wait_log' = [wait_log EXCEPT !.returned = TRUE, !.left = sig, !.got = owed]
    /\ UNCHANGED <<sig, cv_woken, wait_n, notify_n>>
    /\ UNCHANGED signalFrame

\* Wake::wake, that is signal.notify(), by any thread.
Notify ==
    /\ notify_n < MaxNotifies
    /\ LET r == notify(sig) IN
        /\ sig' = r.state
        /\ cv_woken' = IF r.notify_one /\ waiter = "blocked" THEN TRUE ELSE cv_woken
    /\ notify_n' = notify_n + 1
    /\ owed' = owed + 1
    /\ UNCHANGED <<waiter, wait_n, wait_log>>
    /\ UNCHANGED signalFrame

NextSignal ==
    \/ Poll
    \/ WaitEnter
    \/ CondWake
    \/ SpuriousWake
    \/ WaitRecheck
    \/ Notify

\* Signal::new and the first poll of block_on
SignalInit ==
    /\ sig = "Empty"
    /\ cv_woken = FALSE
    /\ waiter = "poll"
    /\ owed = 0
    /\ wait_n = 0
    /\ notify_n = 0
    /\ wait_log = NoWait

SignalIdle == SignalInit

\* A wait that a notify came before did not sleep; a sleeping waiter whose
\* state a notify has changed has its wake-up on the way; wait is never
\* entered in state Waiting.
WakeupsKept ==
    /\ wait_log.owed > 0 => ~wait_log.blocked
    /\ (waiter = "blocked" /\ sig # "Waiting") => cv_woken
    /\ waiter # "panic"
    /\ wait_log.entered # "Waiting"

\* A notify in state Notified changes nothing in the Signal.
NotifiesCollapse ==
    [][(notify_n' = notify_n + 1 /\ sig = "Notified")
          => (sig' = "Notified" /\ cv_woken' = cv_woken)]_vars

\* A waiter that a notify has released does return from wait.
Released ==
    (waiter \in {"blocked", "woken"} /\ sig # "Waiting") ~> (waiter = "poll")

\* C30 as stated: no wake-up is lost, repeated notifies collapse, wait is
\* never entered in state Waiting, and the state is Empty whenever wait
\* returns.
C30_NoLostWakeupEmptyAtReturn ==
    /\ [](WakeupsKept /\ (wait_log.returned => wait_log.left = "Empty"))
    /\ NotifiesCollapse
    /\ Released

\* C30: no wake-up is lost, repeated notifies collapse, wait is never
\* entered in state Waiting, and the state is Empty whenever wait returns,
\* unless two or more notifies came while the waiter slept: then the state
\* is Notified at the return.
C30_NoLostWakeup ==
    /\ [](WakeupsKept
          /\ (wait_log.returned =>
                 /\ wait_log.left = (IF wait_log.blocked /\ wait_log.got >= 2
                                     THEN "Notified" ELSE "Empty")
                 /\ wait_log.blocked => wait_log.got >= 1))
    /\ NotifiesCollapse
    /\ Released

\* A wait that slept has returned after two notifies: the first released it,
\* the second came before the waiter had the lock again.
C30_Witness ==
    /\ wait_log.returned
    /\ wait_log.blocked
    /\ wait_log.got = 2
    /\ wait_log.left = "Notified"
    /\ waiter = "poll"

-----------------------------------------------------------------------------
(* Specifications.                                                         *)

InitQuery == BvhQueryInit /\ DispatchIdle /\ RenderIdle /\ LightIdle /\ TraceIdle /\ MaterialIdle /\ NodeIdle /\ WorldIdle /\ AccumIdle /\ SignalIdle
InitDeepQuery == DeepQueryInit /\ DispatchIdle /\ RenderIdle /\ LightIdle /\ TraceIdle /\ MaterialIdle /\ NodeIdle /\ WorldIdle /\ AccumIdle /\ SignalIdle
InitDispatch == DispatchInit /\ BvhIdle /\ RenderIdle /\ LightIdle /\ TraceIdle /\ MaterialIdle /\ NodeIdle /\ WorldIdle /\ AccumIdle /\ SignalIdle
InitRender == RenderInit /\ BvhIdle /\ DispatchIdle /\ LightIdle /\ TraceIdle /\ MaterialIdle /\ NodeIdle /\ WorldIdle /\ AccumIdle /\ SignalIdle
InitLight == LightInit /\ BvhIdle /\ DispatchIdle /\ RenderIdle /\ TraceIdle /\ MaterialIdle /\ NodeIdle /\ WorldIdle /\ AccumIdle /\ SignalIdle
InitTrace == TraceInit /\ BvhIdle /\ DispatchIdle /\ RenderIdle /\ MaterialIdle /\ NodeIdle /\ WorldIdle /\ AccumIdle /\ SignalIdle
InitImage == ImageInit /\ BvhIdle /\ DispatchIdle /\ LightIdle /\ TraceIdle /\ MaterialIdle /\ NodeIdle /\ WorldIdle /\ AccumIdle /\ SignalIdle
InitMaterial ==
    MaterialInit /\ BvhIdle /\ DispatchIdle /\ RenderIdle /\ LightIdle /\ TraceIdle /\ NodeIdle /\ WorldIdle /\ AccumIdle /\ SignalIdle
InitNode ==
    NodeInit /\ BvhIdle /\ DispatchIdle /\ RenderIdle /\ LightIdle /\ TraceIdle /\ MaterialIdle /\ WorldIdle /\ AccumIdle /\ SignalIdle
InitWorld ==
    WorldInit /\ BvhIdle /\ DispatchIdle /\ RenderIdle /\ LightIdle /\ TraceIdle /\ MaterialIdle
        /\ NodeIdle /\ AccumIdle /\ SignalIdle
InitAccum ==
    AccumInit /\ BvhIdle /\ DispatchIdle /\ RenderIdle /\ LightIdle /\ TraceIdle /\ MaterialIdle
        /\ NodeIdle /\ WorldIdle /\ SignalIdle
InitSignal ==
    SignalInit /\ BvhIdle /\ DispatchIdle /\ RenderIdle /\ LightIdle /\ TraceIdle /\ MaterialIdle
        /\ NodeIdle /\ WorldIdle /\ AccumIdle

\* The BVH queries on small scenes.
Spec == InitQuery /\ [][NextBVH]_vars
\* The BVH queries on deep trees.
SpecDeep == InitDeepQuery /\ [][NextBVH]_vars
\* The BVH queries on small scenes by a thread that runs on.
SpecQueryFair == InitQuery /\ [][NextBVH]_vars /\ WF_loopVars(Advance)
\* One dispatch of the compute kernel.
SpecDispatch == InitDispatch /\ [][NextDispatch]_vars
\* One call of render.
SpecRender == InitRender /\ [][NextRender]_vars
\* One call of render whose threads run on: the receiving thread takes its
\* next step when it can, the pool hands a pending index to some idle worker,
\* and a worker that has taken an index runs the closure to its end and
\* sends when the channel has room.  The last conjunct is
\* WF_vars(WorkerTrace(w)) written out: WorkerTrace(w) is enabled exactly in
\* the states with wk[w].st = "seeded" and leaves wk[w].st = "traced".
SpecRenderFair ==
    /\ InitRender /\ [][NextRender]_vars
    /\ WF_vars(Receive \/ ReceiveEnd \/ JoinAndImage)
    /\ WF_vars(\E w \in Workers : WorkerTake(w))
    /\ \A w \in Workers : WF_vars(WorkerSend(w))
    /\ \A w \in Workers : []<>(wk[w].st # "seeded")
\* The light pick table, built and sampled.
SpecLight == InitLight /\ [][NextLight]_vars
\* One call of trace_pixel.
SpecTrace == InitTrace /\ [][NextTrace]_vars
\* One call of trace_pixel by a thread that runs on: an iteration of the
\* loop that can start does start.
SpecTraceFair == InitTrace /\ [][NextTrace]_vars /\ WF_queries(Iteration)
\* The image that render returns.
SpecImage == InitImage /\ [][NextImage]_vars
\* The BSDF parameters of the materials.
SpecMaterial == InitMaterial /\ [][NextMaterial]_vars
\* The setters and getters of one BVHNode.
SpecNode == InitNode /\ [][NextNode]_vars
\* The construction of a world and a light sample on it.
SpecWorld == InitWorld /\ [][NextWorld]_vars
\* The render loop of the GPU path.
SpecAccum == InitAccum /\ [][NextAccum]_vars
\* One call of block_on.
SpecSignal == InitSignal /\ [][NextSignal]_vars
\* One call of block_on whose thread runs on: a waiter that notify_one has
\* woken leaves cond.wait and takes the lock again.
SpecSignalFair ==
    /\ InitSignal /\ [][NextSignal]_vars
    /\ WF_vars(CondWake)
    /\ WF_vars(WaitRecheck)

====
